---- MODULE Spec2Model ----
(***************************************************************************)
(* shell-deps (chainguard-dev/tw): static analysis of shell scripts.       *)
(*                                                                         *)
(* The module models the dependency extractor (extractDeps and its         *)
(* helpers, tw/pkg/commands/shelldeps/shelldeps.go) as a state machine     *)
(* that walks the syntax tree twice, and the flag matcher of the GNU       *)
(* compatibility checker (matchesFlag).                                    *)
(*                                                                         *)
(* Go strings are sequences of one-character strings, compared byte by     *)
(* byte as sort.Strings and the strings package do.                        *)
(***************************************************************************)
EXTENDS Integers, Sequences, FiniteSets, TLC

(***************************************************************************)
(* Strings                                                                 *)
(***************************************************************************)

\* The printable ASCII characters in ascending byte order: 0x20 .. 0x5f and
\* 0x61 .. 0x7e.
AsciiLow ==
    <<
       " ", "!", "\"", "#", "$", "%", "&", "'", "(", ")", "*", "+", ",", "-", ".", "/",
       "0", "1", "2", "3", "4", "5", "6", "7", "8", "9", ":", ";", "<", "=", ">", "?",
       "@", "A", "B", "C", "D", "E", "F", "G", "H", "I", "J", "K", "L", "M", "N", "O",
       "P", "Q", "R", "S", "T", "U", "V", "W", "X", "Y", "Z", "[", "\\", "]", "^", "_"
    >>

AsciiHigh ==
    <<
       "a", "b", "c", "d", "e", "f", "g", "h", "i", "j", "k", "l", "m", "n", "o", "p",
       "q", "r", "s", "t", "u", "v", "w", "x", "y", "z", "{", "|", "}", "~"
    >>

\* The byte value of a character.
Byte(c) ==
    IF \E i \in 1..Len(AsciiLow) : AsciiLow[i] = c
    THEN 31 + (CHOOSE i \in 1..Len(AsciiLow) : AsciiLow[i] = c)
    ELSE 96 + (CHOOSE i \in 1..Len(AsciiHigh) : AsciiHigh[i] = c)

RECURSIVE StrLess(_, _)
\* a < b for Go strings: byte-wise lexicographic order.
StrLess(a, b) ==
    IF b = <<>> THEN FALSE
    ELSE IF a = <<>> THEN TRUE
    ELSE IF Head(a) = Head(b) THEN StrLess(Tail(a), Tail(b))
    ELSE Byte(Head(a)) < Byte(Head(b))

\* strings.HasPrefix
HasPrefix(s, prefix) ==
    /\ Len(prefix) <= Len(s)
    /\ SubSeq(s, 1, Len(prefix)) = prefix

\* strings.Contains
Contains(s, substr) ==
    \E i \in 1..(Len(s) - Len(substr) + 1) :
        SubSeq(s, i, i + Len(substr) - 1) = substr

\* strings.Index: the 0-based index of the first occurrence, -1 if none.
Index(s, substr) ==
    IF Contains(s, substr)
    THEN (CHOOSE i \in 1..(Len(s) - Len(substr) + 1) :
             /\ SubSeq(s, i, i + Len(substr) - 1) = substr
             /\ \A j \in 1..(i - 1) : SubSeq(s, j, j + Len(substr) - 1) # substr) - 1
    ELSE -1

RECURSIVE InsertSortedDescending(_, _)
\* InsertSorted with the comparison turned round.
InsertSortedDescending(x, sorted) ==
    IF sorted = <<>> THEN <<x>>
    ELSE IF StrLess(x, Head(sorted))
         THEN <<Head(sorted)>> \o InsertSortedDescending(x, Tail(sorted))
         ELSE <<x>> \o sorted

RECURSIVE InsertSorted(_, _)
InsertSorted(x, sorted) ==
    IF sorted = <<>> THEN <<x>>
    ELSE IF StrLess(Head(sorted), x)
         THEN <<Head(sorted)>> \o InsertSorted(x, Tail(sorted))
         ELSE <<x>> \o sorted

\* SortStrings leaving the slice as the range loop filled it.
SortStringsNot(slice) == slice

RECURSIVE SortStrings(_)
\* sort.Strings: the elements of the slice in ascending byte-wise order.
SortStrings(slice) ==
    IF slice = <<>> THEN <<>>
    ELSE InsertSorted(Head(slice), SortStrings(Tail(slice)))

Range(seq) == { seq[i] : i \in 1..Len(seq) }

(***************************************************************************)
(* The builtin table                                                       *)
(***************************************************************************)

\* shellBuiltins: POSIX and common bash/dash builtins and keywords.
shellBuiltinsLiteral ==
    {
      <<"b", "r", "e", "a", "k">>, <<":">>, <<"c", "o", "n", "t", "i", "n", "u", "e">>,
      <<".">>, <<"e", "v", "a", "l">>, <<"e", "x", "e", "c">>,
      <<"e", "x", "i", "t">>, <<"e", "x", "p", "o", "r", "t">>, <<"r", "e", "a", "d", "o", "n", "l", "y">>,
      <<"r", "e", "t", "u", "r", "n">>, <<"s", "e", "t">>, <<"s", "h", "i", "f", "t">>,
      <<"t", "i", "m", "e", "s">>, <<"t", "r", "a", "p">>, <<"u", "n", "s", "e", "t">>,
      <<"a", "l", "i", "a", "s">>, <<"b", "g">>, <<"c", "d">>,
      <<"c", "o", "m", "m", "a", "n", "d">>, <<"f", "a", "l", "s", "e">>, <<"f", "c">>,
      <<"f", "g">>, <<"g", "e", "t", "o", "p", "t", "s">>, <<"j", "o", "b", "s">>,
      <<"k", "i", "l", "l">>, <<"n", "e", "w", "g", "r", "p">>, <<"p", "w", "d">>,
      <<"r", "e", "a", "d">>, <<"t", "r", "u", "e">>, <<"u", "m", "a", "s", "k">>,
      <<"u", "n", "a", "l", "i", "a", "s">>, <<"w", "a", "i", "t">>, <<"h", "a", "s", "h">>,
      <<"t", "y", "p", "e">>, <<"u", "l", "i", "m", "i", "t">>, <<"[">>,
      <<"t", "e", "s", "t">>, <<"e", "c", "h", "o">>, <<"p", "r", "i", "n", "t", "f">>,
      <<"i", "f">>, <<"t", "h", "e", "n">>, <<"e", "l", "s", "e">>,
      <<"e", "l", "i", "f">>, <<"f", "i">>, <<"w", "h", "i", "l", "e">>,
      <<"d", "o">>, <<"d", "o", "n", "e">>, <<"f", "o", "r">>,
      <<"i", "n">>, <<"c", "a", "s", "e">>, <<"e", "s", "a", "c">>,
      <<"u", "n", "t", "i", "l">>, <<"s", "e", "l", "e", "c", "t">>, <<"s", "o", "u", "r", "c", "e">>,
      <<"l", "o", "c", "a", "l">>, <<"d", "e", "c", "l", "a", "r", "e">>, <<"t", "y", "p", "e", "s", "e", "t">>,
      <<"l", "e", "t">>, <<"e", "n", "a", "b", "l", "e">>, <<"b", "u", "i", "l", "t", "i", "n">>,
      <<"c", "a", "l", "l", "e", "r">>, <<"c", "o", "m", "p", "g", "e", "n">>, <<"c", "o", "m", "p", "l", "e", "t", "e">>,
      <<"c", "o", "m", "p", "o", "p", "t">>, <<"d", "i", "r", "s">>, <<"d", "i", "s", "o", "w", "n">>,
      <<"h", "e", "l", "p">>, <<"h", "i", "s", "t", "o", "r", "y">>, <<"l", "o", "g", "o", "u", "t">>,
      <<"m", "a", "p", "f", "i", "l", "e">>, <<"p", "o", "p", "d">>, <<"p", "u", "s", "h", "d">>,
      <<"s", "h", "o", "p", "t">>, <<"s", "u", "s", "p", "e", "n", "d">>, <<"b", "i", "n", "d">>,
      <<"r", "e", "a", "d", "a", "r", "r", "a", "y">>, <<"f", "u", "n", "c", "t", "i", "o", "n">>
    }

\* gnuOnlyFlags: command -> GNU-only flag -> description.
gnuOnlyFlagsLiteral ==
      <<"r", "e", "a", "l", "p", "a", "t", "h">> :>
          (<<"-", "-", "n", "o", "-", "s", "y", "m", "l", "i", "n", "k", "s">> :> "realpath --no-symlinks (GNU only)" @@
           <<"-", "-", "r", "e", "l", "a", "t", "i", "v", "e", "-", "b", "a", "s", "e">> :> "realpath --relative-base (GNU only)" @@
           <<"-", "-", "r", "e", "l", "a", "t", "i", "v", "e", "-", "t", "o">> :> "realpath --relative-to (GNU only)" @@
           <<"-", "q">> :> "realpath -q/--quiet (GNU only)" @@
           <<"-", "-", "q", "u", "i", "e", "t">> :> "realpath --quiet (GNU only)") @@
      <<"s", "t", "a", "t">> :>
          (<<"-", "-", "f", "o", "r", "m", "a", "t">> :> "stat --format (GNU only, use -c for busybox)" @@
           <<"-", "-", "p", "r", "i", "n", "t", "f">> :> "stat --printf (GNU only)") @@
      <<"c", "p">> :>
          (<<"-", "-", "r", "e", "f", "l", "i", "n", "k">> :> "cp --reflink (GNU only)" @@
           <<"-", "-", "s", "p", "a", "r", "s", "e">> :> "cp --sparse (GNU only)") @@
      <<"d", "a", "t", "e">> :>
          (<<"-", "-", "i", "s", "o", "-", "8", "6", "0", "1">> :> "date --iso-8601 (GNU only)" @@
           <<"-", "I">> :> "date -I (GNU only, short for --iso-8601)") @@
      <<"m", "k", "t", "e", "m", "p">> :>
          (<<"-", "-", "s", "u", "f", "f", "i", "x">> :> "mktemp --suffix (GNU only)") @@
      <<"s", "o", "r", "t">> :>
          (<<"-", "h">> :> "sort -h (GNU only, human-numeric-sort)" @@
           <<"-", "-", "h", "u", "m", "a", "n", "-", "n", "u", "m", "e", "r", "i", "c", "-", "s", "o", "r", "t">> :> "sort --human-numeric-sort (GNU only)") @@
      <<"l", "s">> :>
          (<<"-", "-", "t", "i", "m", "e", "-", "s", "t", "y", "l", "e">> :> "ls --time-style (GNU only)") @@
      <<"d", "f">> :>
          (<<"-", "-", "o", "u", "t", "p", "u", "t">> :> "df --output (GNU only)") @@
      <<"r", "e", "a", "d", "l", "i", "n", "k">> :>
          (<<"-", "e">> :> "readlink -e (GNU only, use -f for busybox)" @@
           <<"-", "-", "c", "a", "n", "o", "n", "i", "c", "a", "l", "i", "z", "e", "-", "e", "x", "i", "s", "t", "i", "n", "g">> :> "readlink --canonicalize-existing (GNU only)" @@
           <<"-", "m">> :> "readlink -m (GNU only)" @@
           <<"-", "-", "c", "a", "n", "o", "n", "i", "c", "a", "l", "i", "z", "e", "-", "m", "i", "s", "s", "i", "n", "g">> :> "readlink --canonicalize-missing (GNU only)") @@
      <<"t", "a", "i", "l">> :>
          (<<"-", "-", "p", "i", "d">> :> "tail --pid (GNU only)") @@
      <<"t", "o", "u", "c", "h">> :>
          (<<"-", "-", "d", "a", "t", "e">> :> "touch --date (GNU only)") @@
      <<"h", "e", "a", "d">> :>
          (<<"-", "-", "b", "y", "t", "e", "s">> :> "head --bytes (GNU only, use -c)") @@
      <<"d", "u">> :>
          (<<"-", "-", "a", "p", "p", "a", "r", "e", "n", "t", "-", "s", "i", "z", "e">> :> "du --apparent-size (GNU only)") @@
      <<"c", "h", "m", "o", "d">> :>
          (<<"-", "-", "r", "e", "f", "e", "r", "e", "n", "c", "e">> :> "chmod --reference (GNU only)") @@
      <<"c", "h", "o", "w", "n">> :>
          (<<"-", "-", "r", "e", "f", "e", "r", "e", "n", "c", "e">> :> "chown --reference (GNU only)") @@
      <<"i", "n", "s", "t", "a", "l", "l">> :>
          (<<"-", "D">> :> "install -D (GNU only, creates parent directories)") @@
      <<"t", "r">> :>
          (<<"-", "-", "c", "o", "m", "p", "l", "e", "m", "e", "n", "t">> :> "tr --complement (GNU only, use -c)") @@
      <<"w", "c">> :>
          (<<"-", "-", "t", "o", "t", "a", "l">> :> "wc --total (GNU only)") @@
      <<"s", "e", "q">> :>
          (<<"-", "-", "e", "q", "u", "a", "l", "-", "w", "i", "d", "t", "h">> :> "seq --equal-width (GNU only, use -w)")

\* PackageProvides: package -> the commands it provides.
PackageProvidesLiteral ==
      \* busybox
      <<"b", "u", "s", "y", "b", "o", "x">> :>
          <<<<"s", "h">>, <<"a", "s", "h">>, <<"c", "a", "t">>, <<"c", "p">>, <<"m", "v">>, <<"r", "m">>,
            <<"l", "n">>, <<"l", "s">>, <<"m", "k", "d", "i", "r">>, <<"r", "m", "d", "i", "r">>,
            <<"t", "o", "u", "c", "h">>, <<"c", "h", "m", "o", "d">>, <<"c", "h", "o", "w", "n">>,
            <<"c", "h", "g", "r", "p">>, <<"s", "t", "a", "t">>, <<"r", "e", "a", "d", "l", "i", "n", "k">>,
            <<"r", "e", "a", "l", "p", "a", "t", "h">>, <<"f", "i", "n", "d">>, <<"x", "a", "r", "g", "s">>,
            <<"f", "i", "l", "e">>, <<"g", "r", "e", "p">>, <<"e", "g", "r", "e", "p">>,
            <<"f", "g", "r", "e", "p">>, <<"s", "e", "d">>, <<"a", "w", "k">>, <<"c", "u", "t">>,
            <<"s", "o", "r", "t">>, <<"u", "n", "i", "q">>, <<"h", "e", "a", "d">>, <<"t", "a", "i", "l">>,
            <<"w", "c">>, <<"t", "r">>, <<"t", "e", "e">>, <<"c", "o", "m", "m">>, <<"d", "i", "f", "f">>,
            <<"p", "a", "t", "c", "h">>, <<"t", "a", "r">>, <<"g", "z", "i", "p">>,
            <<"g", "u", "n", "z", "i", "p">>, <<"z", "c", "a", "t">>, <<"b", "z", "i", "p", "2">>,
            <<"b", "u", "n", "z", "i", "p", "2">>, <<"b", "z", "c", "a", "t">>, <<"x", "z">>,
            <<"u", "n", "x", "z">>, <<"x", "z", "c", "a", "t">>, <<"w", "g", "e", "t">>, <<"n", "c">>,
            <<"n", "e", "t", "s", "t", "a", "t">>, <<"h", "o", "s", "t", "n", "a", "m", "e">>, <<"i", "p">>,
            <<"i", "f", "c", "o", "n", "f", "i", "g">>, <<"r", "o", "u", "t", "e">>, <<"p", "i", "n", "g">>,
            <<"t", "r", "a", "c", "e", "r", "o", "u", "t", "e">>, <<"n", "s", "l", "o", "o", "k", "u", "p">>,
            <<"p", "s">>, <<"k", "i", "l", "l">>, <<"k", "i", "l", "l", "a", "l", "l">>,
            <<"p", "g", "r", "e", "p">>, <<"p", "k", "i", "l", "l">>, <<"n", "i", "c", "e">>,
            <<"n", "o", "h", "u", "p">>, <<"t", "i", "m", "e", "o", "u", "t">>, <<"w", "a", "t", "c", "h">>,
            <<"u", "n", "a", "m", "e">>, <<"u", "p", "t", "i", "m", "e">>, <<"f", "r", "e", "e">>,
            <<"d", "f">>, <<"d", "u">>, <<"m", "o", "u", "n", "t">>, <<"u", "m", "o", "u", "n", "t">>,
            <<"i", "d">>, <<"w", "h", "o", "a", "m", "i">>, <<"g", "r", "o", "u", "p", "s">>,
            <<"d", "a", "t", "e">>, <<"c", "a", "l">>, <<"e", "n", "v">>,
            <<"p", "r", "i", "n", "t", "e", "n", "v">>, <<"w", "h", "i", "c", "h">>,
            <<"d", "i", "r", "n", "a", "m", "e">>, <<"b", "a", "s", "e", "n", "a", "m", "e">>,
            <<"e", "x", "p", "r">>, <<"s", "e", "q">>, <<"s", "l", "e", "e", "p">>, <<"t", "r", "u", "e">>,
            <<"f", "a", "l", "s", "e">>, <<"y", "e", "s">>, <<"n", "p", "r", "o", "c">>, <<"v", "i">>,
            <<"l", "e", "s", "s">>, <<"m", "o", "r", "e">>, <<"m", "d", "5", "s", "u", "m">>,
            <<"s", "h", "a", "2", "5", "6", "s", "u", "m">>, <<"s", "h", "a", "5", "1", "2", "s", "u", "m">>,
            <<"b", "a", "s", "e", "6", "4">>, <<"o", "d">>, <<"h", "e", "x", "d", "u", "m", "p">>,
            <<"s", "t", "r", "i", "n", "g", "s">>, <<"m", "k", "t", "e", "m", "p">>, <<"s", "y", "n", "c">>,
            <<"l", "o", "g", "g", "e", "r">>>> @@
      \* coreutils
      <<"c", "o", "r", "e", "u", "t", "i", "l", "s">> :>
          <<<<"c", "a", "t">>, <<"c", "p">>, <<"m", "v">>, <<"r", "m">>, <<"l", "n">>, <<"l", "s">>,
            <<"m", "k", "d", "i", "r">>, <<"r", "m", "d", "i", "r">>, <<"t", "o", "u", "c", "h">>,
            <<"c", "h", "m", "o", "d">>, <<"c", "h", "o", "w", "n">>, <<"c", "h", "g", "r", "p">>,
            <<"s", "t", "a", "t">>, <<"r", "e", "a", "d", "l", "i", "n", "k">>,
            <<"r", "e", "a", "l", "p", "a", "t", "h">>, <<"c", "u", "t">>, <<"s", "o", "r", "t">>,
            <<"u", "n", "i", "q">>, <<"h", "e", "a", "d">>, <<"t", "a", "i", "l">>, <<"w", "c">>,
            <<"t", "r">>, <<"t", "e", "e">>, <<"c", "o", "m", "m">>, <<"d", "i", "f", "f">>, <<"d", "f">>,
            <<"d", "u">>, <<"d", "a", "t", "e">>, <<"e", "n", "v">>,
            <<"p", "r", "i", "n", "t", "e", "n", "v">>, <<"d", "i", "r", "n", "a", "m", "e">>,
            <<"b", "a", "s", "e", "n", "a", "m", "e">>, <<"e", "x", "p", "r">>, <<"s", "e", "q">>,
            <<"s", "l", "e", "e", "p">>, <<"t", "r", "u", "e">>, <<"f", "a", "l", "s", "e">>,
            <<"y", "e", "s">>, <<"n", "p", "r", "o", "c">>, <<"m", "d", "5", "s", "u", "m">>,
            <<"s", "h", "a", "2", "5", "6", "s", "u", "m">>, <<"s", "h", "a", "5", "1", "2", "s", "u", "m">>,
            <<"b", "a", "s", "e", "6", "4">>, <<"o", "d">>, <<"m", "k", "t", "e", "m", "p">>,
            <<"s", "y", "n", "c">>, <<"i", "d">>, <<"w", "h", "o", "a", "m", "i">>,
            <<"g", "r", "o", "u", "p", "s">>, <<"u", "n", "a", "m", "e">>, <<"n", "i", "c", "e">>,
            <<"n", "o", "h", "u", "p">>, <<"t", "i", "m", "e", "o", "u", "t">>,
            <<"i", "n", "s", "t", "a", "l", "l">>, <<"s", "h", "r", "e", "d">>,
            <<"t", "r", "u", "n", "c", "a", "t", "e">>, <<"n", "u", "m", "f", "m", "t">>,
            <<"f", "a", "c", "t", "o", "r">>, <<"e", "x", "p", "a", "n", "d">>,
            <<"u", "n", "e", "x", "p", "a", "n", "d">>, <<"f", "o", "l", "d">>, <<"f", "m", "t">>,
            <<"j", "o", "i", "n">>, <<"p", "a", "s", "t", "e">>, <<"s", "p", "l", "i", "t">>,
            <<"c", "s", "p", "l", "i", "t">>, <<"n", "l">>, <<"p", "r">>, <<"p", "t", "x">>,
            <<"s", "t", "t", "y">>, <<"t", "t", "y">>>> @@
      \* bash
      <<"b", "a", "s", "h">> :>
          <<<<"b", "a", "s", "h">>>> @@
      \* dash
      <<"d", "a", "s", "h">> :>
          <<<<"d", "a", "s", "h">>>> @@
      \* grep
      <<"g", "r", "e", "p">> :>
          <<<<"g", "r", "e", "p">>, <<"e", "g", "r", "e", "p">>, <<"f", "g", "r", "e", "p">>>> @@
      \* gawk
      <<"g", "a", "w", "k">> :>
          <<<<"a", "w", "k">>, <<"g", "a", "w", "k">>>> @@
      \* mawk
      <<"m", "a", "w", "k">> :>
          <<<<"a", "w", "k">>, <<"m", "a", "w", "k">>>> @@
      \* sed
      <<"s", "e", "d">> :>
          <<<<"s", "e", "d">>>> @@
      \* diffutils
      <<"d", "i", "f", "f", "u", "t", "i", "l", "s">> :>
          <<<<"d", "i", "f", "f">>, <<"d", "i", "f", "f", "3">>, <<"s", "d", "i", "f", "f">>,
            <<"c", "m", "p">>>> @@
      \* curl
      <<"c", "u", "r", "l">> :>
          <<<<"c", "u", "r", "l">>>> @@
      \* wget
      <<"w", "g", "e", "t">> :>
          <<<<"w", "g", "e", "t">>>> @@
      \* bind-tools
      <<"b", "i", "n", "d", "-", "t", "o", "o", "l", "s">> :>
          <<<<"d", "i", "g">>, <<"n", "s", "l", "o", "o", "k", "u", "p">>, <<"h", "o", "s", "t">>,
            <<"n", "s", "u", "p", "d", "a", "t", "e">>>> @@
      \* iputils
      <<"i", "p", "u", "t", "i", "l", "s">> :>
          <<<<"p", "i", "n", "g">>, <<"p", "i", "n", "g", "6">>,
            <<"t", "r", "a", "c", "e", "p", "a", "t", "h">>, <<"c", "l", "o", "c", "k", "d", "i", "f", "f">>,
            <<"a", "r", "p", "i", "n", "g">>>> @@
      \* iproute2
      <<"i", "p", "r", "o", "u", "t", "e", "2">> :>
          <<<<"i", "p">>, <<"s", "s">>, <<"t", "c">>, <<"b", "r", "i", "d", "g", "e">>,
            <<"d", "e", "v", "l", "i", "n", "k">>, <<"r", "t", "m", "o", "n">>>> @@
      \* net-tools
      <<"n", "e", "t", "-", "t", "o", "o", "l", "s">> :>
          <<<<"n", "e", "t", "s", "t", "a", "t">>, <<"i", "f", "c", "o", "n", "f", "i", "g">>,
            <<"r", "o", "u", "t", "e">>, <<"a", "r", "p">>, <<"h", "o", "s", "t", "n", "a", "m", "e">>>> @@
      \* netcat-openbsd
      <<"n", "e", "t", "c", "a", "t", "-", "o", "p", "e", "n", "b", "s", "d">> :>
          <<<<"n", "c">>, <<"n", "e", "t", "c", "a", "t">>>> @@
      \* socat
      <<"s", "o", "c", "a", "t">> :>
          <<<<"s", "o", "c", "a", "t">>>> @@
      \* openssh
      <<"o", "p", "e", "n", "s", "s", "h">> :>
          <<<<"s", "s", "h">>, <<"s", "c", "p">>, <<"s", "f", "t", "p">>,
            <<"s", "s", "h", "-", "k", "e", "y", "g", "e", "n">>,
            <<"s", "s", "h", "-", "k", "e", "y", "s", "c", "a", "n">>>> @@
      \* openssh-client
      <<"o", "p", "e", "n", "s", "s", "h", "-", "c", "l", "i", "e", "n", "t">> :>
          <<<<"s", "s", "h">>, <<"s", "c", "p">>, <<"s", "f", "t", "p">>,
            <<"s", "s", "h", "-", "k", "e", "y", "g", "e", "n">>,
            <<"s", "s", "h", "-", "k", "e", "y", "s", "c", "a", "n">>>> @@
      \* rsync
      <<"r", "s", "y", "n", "c">> :>
          <<<<"r", "s", "y", "n", "c">>>> @@
      \* gzip
      <<"g", "z", "i", "p">> :>
          <<<<"g", "z", "i", "p">>, <<"g", "u", "n", "z", "i", "p">>, <<"z", "c", "a", "t">>>> @@
      \* bzip2
      <<"b", "z", "i", "p", "2">> :>
          <<<<"b", "z", "i", "p", "2">>, <<"b", "u", "n", "z", "i", "p", "2">>, <<"b", "z", "c", "a", "t">>>> @@
      \* xz
      <<"x", "z">> :>
          <<<<"x", "z">>, <<"u", "n", "x", "z">>, <<"x", "z", "c", "a", "t">>, <<"l", "z", "m", "a">>,
            <<"u", "n", "l", "z", "m", "a">>>> @@
      \* zstd
      <<"z", "s", "t", "d">> :>
          <<<<"z", "s", "t", "d">>, <<"u", "n", "z", "s", "t", "d">>, <<"z", "s", "t", "d", "c", "a", "t">>,
            <<"z", "s", "t", "d", "m", "t">>>> @@
      \* zip
      <<"z", "i", "p">> :>
          <<<<"z", "i", "p">>>> @@
      \* unzip
      <<"u", "n", "z", "i", "p">> :>
          <<<<"u", "n", "z", "i", "p">>>> @@
      \* tar
      <<"t", "a", "r">> :>
          <<<<"t", "a", "r">>>> @@
      \* cpio
      <<"c", "p", "i", "o">> :>
          <<<<"c", "p", "i", "o">>>> @@
      \* procps
      <<"p", "r", "o", "c", "p", "s">> :>
          <<<<"p", "s">>, <<"t", "o", "p">>, <<"f", "r", "e", "e">>, <<"v", "m", "s", "t", "a", "t">>,
            <<"p", "g", "r", "e", "p">>, <<"p", "k", "i", "l", "l">>, <<"p", "i", "d", "o", "f">>,
            <<"w", "a", "t", "c", "h">>, <<"s", "y", "s", "c", "t", "l">>, <<"u", "p", "t", "i", "m", "e">>,
            <<"w">>>> @@
      \* psmisc
      <<"p", "s", "m", "i", "s", "c">> :>
          <<<<"k", "i", "l", "l", "a", "l", "l">>, <<"f", "u", "s", "e", "r">>,
            <<"p", "s", "t", "r", "e", "e">>, <<"p", "e", "e", "k", "f", "d">>>> @@
      \* util-linux
      <<"u", "t", "i", "l", "-", "l", "i", "n", "u", "x">> :>
          <<<<"m", "o", "u", "n", "t">>, <<"u", "m", "o", "u", "n", "t">>, <<"f", "d", "i", "s", "k">>,
            <<"m", "k", "f", "s">>, <<"f", "s", "c", "k">>, <<"l", "s", "b", "l", "k">>,
            <<"b", "l", "k", "i", "d">>, <<"f", "i", "n", "d", "m", "n", "t">>,
            <<"l", "o", "s", "e", "t", "u", "p">>, <<"s", "w", "a", "p", "o", "n">>,
            <<"s", "w", "a", "p", "o", "f", "f">>>> @@
      \* shadow
      <<"s", "h", "a", "d", "o", "w">> :>
          <<<<"u", "s", "e", "r", "a", "d", "d">>, <<"u", "s", "e", "r", "d", "e", "l">>,
            <<"u", "s", "e", "r", "m", "o", "d">>, <<"g", "r", "o", "u", "p", "a", "d", "d">>,
            <<"g", "r", "o", "u", "p", "d", "e", "l">>, <<"g", "r", "o", "u", "p", "m", "o", "d">>,
            <<"p", "a", "s", "s", "w", "d">>, <<"c", "h", "p", "a", "s", "s", "w", "d">>>> @@
      \* python3
      <<"p", "y", "t", "h", "o", "n", "3">> :>
          <<<<"p", "y", "t", "h", "o", "n", "3">>, <<"p", "y", "t", "h", "o", "n">>>> @@
      \* python-3.11
      <<"p", "y", "t", "h", "o", "n", "-", "3", ".", "1", "1">> :>
          <<<<"p", "y", "t", "h", "o", "n", "3", ".", "1", "1">>>> @@
      \* python-3.12
      <<"p", "y", "t", "h", "o", "n", "-", "3", ".", "1", "2">> :>
          <<<<"p", "y", "t", "h", "o", "n", "3", ".", "1", "2">>>> @@
      \* python-3.13
      <<"p", "y", "t", "h", "o", "n", "-", "3", ".", "1", "3">> :>
          <<<<"p", "y", "t", "h", "o", "n", "3", ".", "1", "3">>>> @@
      \* perl
      <<"p", "e", "r", "l">> :>
          <<<<"p", "e", "r", "l">>>> @@
      \* ruby
      <<"r", "u", "b", "y">> :>
          <<<<"r", "u", "b", "y">>, <<"i", "r", "b">>, <<"g", "e", "m">>>> @@
      \* nodejs
      <<"n", "o", "d", "e", "j", "s">> :>
          <<<<"n", "o", "d", "e">>, <<"n", "p", "m">>, <<"n", "p", "x">>>> @@
      \* git
      <<"g", "i", "t">> :>
          <<<<"g", "i", "t">>>> @@
      \* make
      <<"m", "a", "k", "e">> :>
          <<<<"m", "a", "k", "e">>>> @@
      \* cmake
      <<"c", "m", "a", "k", "e">> :>
          <<<<"c", "m", "a", "k", "e">>, <<"c", "t", "e", "s", "t">>, <<"c", "p", "a", "c", "k">>>> @@
      \* gcc
      <<"g", "c", "c">> :>
          <<<<"g", "c", "c">>, <<"g", "+", "+">>, <<"c", "p", "p">>>> @@
      \* clang
      <<"c", "l", "a", "n", "g">> :>
          <<<<"c", "l", "a", "n", "g">>, <<"c", "l", "a", "n", "g", "+", "+">>>> @@
      \* go
      <<"g", "o">> :>
          <<<<"g", "o">>, <<"g", "o", "f", "m", "t">>>> @@
      \* jq
      <<"j", "q">> :>
          <<<<"j", "q">>>> @@
      \* yq
      <<"y", "q">> :>
          <<<<"y", "q">>>> @@
      \* postgresql-client
      <<"p", "o", "s", "t", "g", "r", "e", "s", "q", "l", "-", "c", "l", "i", "e", "n", "t">> :>
          <<<<"p", "s", "q", "l">>, <<"p", "g", "_", "d", "u", "m", "p">>,
            <<"p", "g", "_", "r", "e", "s", "t", "o", "r", "e">>,
            <<"p", "g", "_", "i", "s", "r", "e", "a", "d", "y">>>> @@
      \* postgresql-16-client
      <<"p", "o", "s", "t", "g", "r", "e", "s", "q", "l", "-", "1", "6", "-", "c", "l", "i", "e", "n", "t">> :>
          <<<<"p", "s", "q", "l">>, <<"p", "g", "_", "d", "u", "m", "p">>,
            <<"p", "g", "_", "r", "e", "s", "t", "o", "r", "e">>,
            <<"p", "g", "_", "i", "s", "r", "e", "a", "d", "y">>>> @@
      \* mysql-client
      <<"m", "y", "s", "q", "l", "-", "c", "l", "i", "e", "n", "t">> :>
          <<<<"m", "y", "s", "q", "l">>, <<"m", "y", "s", "q", "l", "d", "u", "m", "p">>,
            <<"m", "y", "s", "q", "l", "a", "d", "m", "i", "n">>>> @@
      \* mariadb-client
      <<"m", "a", "r", "i", "a", "d", "b", "-", "c", "l", "i", "e", "n", "t">> :>
          <<<<"m", "y", "s", "q", "l">>, <<"m", "a", "r", "i", "a", "d", "b">>,
            <<"m", "y", "s", "q", "l", "d", "u", "m", "p">>,
            <<"m", "a", "r", "i", "a", "d", "b", "-", "d", "u", "m", "p">>>> @@
      \* redis
      <<"r", "e", "d", "i", "s">> :>
          <<<<"r", "e", "d", "i", "s", "-", "c", "l", "i">>,
            <<"r", "e", "d", "i", "s", "-", "s", "e", "r", "v", "e", "r">>,
            <<"r", "e", "d", "i", "s", "-", "b", "e", "n", "c", "h", "m", "a", "r", "k">>>> @@
      \* valkey
      <<"v", "a", "l", "k", "e", "y">> :>
          <<<<"v", "a", "l", "k", "e", "y", "-", "c", "l", "i">>,
            <<"v", "a", "l", "k", "e", "y", "-", "s", "e", "r", "v", "e", "r">>,
            <<"v", "a", "l", "k", "e", "y", "-", "b", "e", "n", "c", "h", "m", "a", "r", "k">>>> @@
      \* valkey-cli
      <<"v", "a", "l", "k", "e", "y", "-", "c", "l", "i">> :>
          <<<<"v", "a", "l", "k", "e", "y", "-", "c", "l", "i">>>> @@
      \* kubectl
      <<"k", "u", "b", "e", "c", "t", "l">> :>
          <<<<"k", "u", "b", "e", "c", "t", "l">>>> @@
      \* helm
      <<"h", "e", "l", "m">> :>
          <<<<"h", "e", "l", "m">>>> @@
      \* docker-cli
      <<"d", "o", "c", "k", "e", "r", "-", "c", "l", "i">> :>
          <<<<"d", "o", "c", "k", "e", "r">>>> @@
      \* podman
      <<"p", "o", "d", "m", "a", "n">> :>
          <<<<"p", "o", "d", "m", "a", "n">>>> @@
      \* skopeo
      <<"s", "k", "o", "p", "e", "o">> :>
          <<<<"s", "k", "o", "p", "e", "o">>>> @@
      \* crane
      <<"c", "r", "a", "n", "e">> :>
          <<<<"c", "r", "a", "n", "e">>, <<"g", "c", "r", "a", "n", "e">>>> @@
      \* aws-cli
      <<"a", "w", "s", "-", "c", "l", "i">> :>
          <<<<"a", "w", "s">>>> @@
      \* aws-cli-v2
      <<"a", "w", "s", "-", "c", "l", "i", "-", "v", "2">> :>
          <<<<"a", "w", "s">>>> @@
      \* gcloud
      <<"g", "c", "l", "o", "u", "d">> :>
          <<<<"g", "c", "l", "o", "u", "d">>, <<"g", "s", "u", "t", "i", "l">>, <<"b", "q">>>> @@
      \* azure-cli
      <<"a", "z", "u", "r", "e", "-", "c", "l", "i">> :>
          <<<<"a", "z">>>> @@
      \* file
      <<"f", "i", "l", "e">> :>
          <<<<"f", "i", "l", "e">>>> @@
      \* findutils
      <<"f", "i", "n", "d", "u", "t", "i", "l", "s">> :>
          <<<<"f", "i", "n", "d">>, <<"x", "a", "r", "g", "s">>, <<"l", "o", "c", "a", "t", "e">>,
            <<"u", "p", "d", "a", "t", "e", "d", "b">>>> @@
      \* which
      <<"w", "h", "i", "c", "h">> :>
          <<<<"w", "h", "i", "c", "h">>>> @@
      \* tree
      <<"t", "r", "e", "e">> :>
          <<<<"t", "r", "e", "e">>>> @@
      \* less
      <<"l", "e", "s", "s">> :>
          <<<<"l", "e", "s", "s">>>> @@
      \* vim
      <<"v", "i", "m">> :>
          <<<<"v", "i", "m">>, <<"v", "i">>>> @@
      \* nano
      <<"n", "a", "n", "o">> :>
          <<<<"n", "a", "n", "o">>>> @@
      \* openssl
      <<"o", "p", "e", "n", "s", "s", "l">> :>
          <<<<"o", "p", "e", "n", "s", "s", "l">>>> @@
      \* ca-certificates
      <<"c", "a", "-", "c", "e", "r", "t", "i", "f", "i", "c", "a", "t", "e", "s">> :>
          <<>> @@
      \* posix-libc-utils
      <<"p", "o", "s", "i", "x", "-", "l", "i", "b", "c", "-", "u", "t", "i", "l", "s">> :>
          <<<<"g", "e", "t", "e", "n", "t">>, <<"i", "c", "o", "n", "v">>, <<"l", "o", "c", "a", "l", "e">>,
            <<"l", "o", "c", "a", "l", "e", "d", "e", "f">>>>

\* The three tables are package-level variables of the program, which every
\* operation reads where it runs.
VARIABLES
    shellBuiltins,     \* the builtin table
    gnuOnlyFlags,      \* command -> GNU-only flag -> description
    PackageProvides    \* package -> the commands it provides

tableVars == <<shellBuiltins, gnuOnlyFlags, PackageProvides>>

\* The tables after package initialisation: their composite literals.
TablesLoaded ==
    /\ shellBuiltins = shellBuiltinsLiteral
    /\ gnuOnlyFlags = gnuOnlyFlagsLiteral
    /\ PackageProvides = PackageProvidesLiteral

(***************************************************************************)
(* The syntax tree (mvdan.cc/sh/v3/syntax, as far as the walkers read it)  *)
(***************************************************************************)

\* Word parts.
Lit(value)       == [type |-> "Lit", Value |-> value]
SglQuoted(value) == [type |-> "SglQuoted", Value |-> value]
DblQuoted(parts) == [type |-> "DblQuoted", Parts |-> parts]
ParamExp(param)  == [type |-> "ParamExp", Param |-> param]
CmdSubst(stmts)  == [type |-> "CmdSubst", Stmts |-> stmts]

\* Nodes.  A word is the sequence of its parts (Word.Parts).  Block stands
\* for every compound node the walkers only pass through (if/for/while
\* clauses, pipelines, && and || lists, brace groups).
CallExpr(assigns, args) == [type |-> "CallExpr", Assigns |-> assigns, Args |-> args]
FuncDecl(name, body)    == [type |-> "FuncDecl", Name |-> name, Body |-> body]
Block(stmts)            == [type |-> "Block", Stmts |-> stmts]

\* A call without assignments, and a word that is one literal.
Call(args) == CallExpr(<<>>, args)
W(value)   == <<Lit(value)>>

RECURSIVE WalkStmts(_), WalkNode(_), WalkWords(_), WalkParts(_)
\* syntax.Walk: the CallExpr and FuncDecl nodes of a tree in the order the
\* walk hands them to its callback (depth first, parents before children).
WalkNode(n) ==
    CASE n.type = "CallExpr" -> <<n>> \o WalkWords(n.Assigns) \o WalkWords(n.Args)
      [] n.type = "FuncDecl" -> <<n>> \o WalkStmts(n.Body)
      [] n.type = "Block"    -> WalkStmts(n.Stmts)

WalkStmts(stmts) ==
    IF stmts = <<>> THEN <<>>
    ELSE WalkNode(Head(stmts)) \o WalkStmts(Tail(stmts))

WalkWords(words) ==
    IF words = <<>> THEN <<>>
    ELSE WalkParts(Head(words)) \o WalkWords(Tail(words))

WalkParts(parts) ==
    IF parts = <<>> THEN <<>>
    ELSE (CASE Head(parts).type = "CmdSubst"  -> WalkStmts(Head(parts).Stmts)
            [] Head(parts).type = "DblQuoted" -> WalkParts(Head(parts).Parts)
            [] OTHER -> <<>>)
         \o WalkParts(Tail(parts))

RECURSIVE wordToString(_)
\* wordToString: the literal and single-quoted parts of a word and the
\* literal parts of its double-quoted parts, concatenated; every other
\* part (a parameter expansion, a command substitution) adds nothing.
wordToString(w) ==
    IF w = <<>> THEN <<>>
    ELSE LET p == Head(w)
             RECURSIVE lits(_)
             lits(parts) == IF parts = <<>> THEN <<>>
                            ELSE (IF Head(parts).type = "Lit"
                                  THEN Head(parts).Value ELSE <<>>)
                                 \o lits(Tail(parts))
         IN  (CASE p.type = "Lit"       -> p.Value
                [] p.type = "SglQuoted" -> p.Value
                [] p.type = "DblQuoted" -> lits(p.Parts)
                [] OTHER -> <<>>)
             \o wordToString(Tail(w))

\* containsAllPositionalParams: the word has a part $@ or $*, bare or
\* directly inside double quotes.
containsAllPositionalParams(w) ==
    \E i \in 1..Len(w) :
        \/ /\ w[i].type = "ParamExp"
           /\ w[i].Param \in {<<"@">>, <<"*">>}
        \/ /\ w[i].type = "DblQuoted"
           /\ \E j \in 1..Len(w[i].Parts) :
                  /\ w[i].Parts[j].type = "ParamExp"
                  /\ w[i].Parts[j].Param \in {<<"@">>, <<"*">>}

\* executesArguments looking at every word of a call, not only the command.
executesArgumentsAnyPosition(body) ==
    \E i \in 1..Len(WalkStmts(body)) :
        LET n == WalkStmts(body)[i]
        IN  /\ n.type = "CallExpr"
            /\ \E k \in 1..Len(n.Args) : containsAllPositionalParams(n.Args[k])

\* executesArguments: some call in the function body has such a word in
\* command position.
executesArguments(body) ==
    \E i \in 1..Len(WalkStmts(body)) :
        LET n == WalkStmts(body)[i]
        IN  /\ n.type = "CallExpr"
            /\ Len(n.Args) > 0
            /\ containsAllPositionalParams(n.Args[1])

(***************************************************************************)
(* String constants of the scripts below                                  *)
(***************************************************************************)

str_vr          == <<"v", "r">>
str_pa          == <<"p", "r", "i", "n", "t", "_", "a", "r", "g", "s">>
str_ls          == <<"l", "s">>
str_etc         == <<"/", "e", "t", "c">>
str_grep        == <<"g", "r", "e", "p">>
str_pattern     == <<"p", "a", "t", "t", "e", "r", "n">>
str_file        == <<"f", "i", "l", "e">>
str_echo        == <<"e", "c", "h", "o">>
str_hi          == <<"h", "i">>
str_apt         == <<"/", "u", "s", "r", "/", "b", "i", "n", "/", "a", "p", "t">>
str_update      == <<"u", "p", "d", "a", "t", "e">>
str_X           == <<"X">>
str_y           == <<"y">>
str_x           == <<"x">>
str_z           == <<"z">>
str_alias       == <<"a", "l", "i", "a", "s">>
str_ll_def      == <<"l", "l", "=">>
str_ls_la       == <<"l", "s", " ", "-", "l", "a">>
str_ll          == <<"l", "l">>
str_tmp         == <<"/", "t", "m", "p">>
str_a_x         == <<"a", "=", "x">>
str_b_y         == <<"b", "=", "y">>
str_a           == <<"a">>
str_b           == <<"b">>
str_TOOL        == <<"T", "O", "O", "L">>
str_ctl         == <<"c", "t", "l">>
str_pre         == <<"p", "r", "e">>
str_BIN         == <<"B", "I", "N">>
str_slash_tool  == <<"/", "t", "o", "o", "l">>
str_glob_sh     == <<"*", ".", "s", "h">>
str_sudo        == <<"/", "s", "b", "i", "n", "/", "s", "u", "d", "o">>
str_dash_l      == <<"-", "l">>
str_cmd         == <<"c", "m", "d">>
str_arg         == <<"a", "r", "g">>
str_dollar_x    == <<"$", "x">>
str_colon       == <<":">>
str_at          == <<"@">>
str_star        == <<"*">>
str_slash       == <<"/">>
str_dollar      == <<"$">>
str_eq          == <<"=">>
str_usr_sudo    == <<"/", "u", "s", "r", "/", "b", "i", "n", "/", "s", "u", "d", "o">>
str_modprobe    == <<"/", "s", "b", "i", "n", "/", "m", "o", "d", "p", "r", "o", "b", "e">>
str_foo         == <<"f", "o", "o">>
str_stderr      == <<"s", "t", "d", "e", "r", "r">>
str_thing_msg   == <<"t", "h", "i", "s", " ", "i", "s", " ", "a", " ", "t", "h", "i", "n", "g", ":">>
str_out         == <<"o", "u", "t">>
str_out2        == <<"o", "u", "t", "2">>
str_stuff       == <<"s", "t", "u", "f", "f">>
str_passwd      == <<"/", "e", "t", "c", "/", "p", "a", "s", "s", "w", "d">>
str_awk         == <<"a", "w", "k">>
str_dash_F      == <<"-", "F", ":">>
str_print3      == <<"{", "p", "r", "i", "n", "t", " ", "$", "3", "}">>
str_lbracket    == <<"[">>
str_rbracket    == <<"]">>
str_dash_n      == <<"-", "n">>
str_bobob       == <<"b", "o", "b", "o", "b">>
str_check       == <<"-", "-", "c", "h", "e", "c", "k">>
str_thing       == <<"t", "h", "i", "n", "g">>
str_test        == <<"t", "e", "s", "t">>
str_dash_s      == <<"-", "s">>
str_tt          == <<"/", "t", "t">>
str_oh_no       == <<"O", "h", " ", "n", "o", ",", " ", "t", "t", " ", "i", "s", " ", "n", "o", "t", " ", "t", "h", "e", "r", "e">>
str_cd          == <<"c", "d">>
str_export      == <<"e", "x", "p", "o", "r", "t">>
str_FOO_bar     == <<"F", "O", "O", "=", "b", "a", "r">>
str_dash_f      == <<"-", "f">>
str_var         == <<"v", "a", "r">>
str_hello       == <<"h", "e", "l", "l", "o">>
str_run_cmd     == <<"r", "u", "n", "_", "c", "m", "d">>
str_executing   == <<"E", "x", "e", "c", "u", "t", "i", "n", "g", ":", " ">>
str_pattern_txt == <<"f", "i", "l", "e", ".", "t", "x", "t">>
str_print1      == <<"{", "p", "r", "i", "n", "t", " ", "$", "1", "}">>
str_data_txt    == <<"d", "a", "t", "a", ".", "t", "x", "t">>
str_execute     == <<"e", "x", "e", "c", "u", "t", "e">>
str_find        == <<"f", "i", "n", "d">>
str_dot         == <<".">>
str_dash_name   == <<"-", "n", "a", "m", "e">>
str_glob_txt    == <<"*", ".", "t", "x", "t">>
str_outer       == <<"o", "u", "t", "e", "r">>
str_inner       == <<"i", "n", "n", "e", "r">>
str_reflink        == <<"-", "-", "r", "e", "f", "l", "i", "n", "k">>
str_reflink_auto   == <<"-", "-", "r", "e", "f", "l", "i", "n", "k", "=", "a", "u", "t", "o">>
str_other          == <<"-", "-", "o", "t", "h", "e", "r">>
str_dash_D         == <<"-", "D">>
str_Dm755          == <<"-", "D", "m", "7", "5", "5">>
str_m755           == <<"-", "m", "7", "5", "5">>
str_dash_h         == <<"-", "h">>
str_dash_v         == <<"-", "v">>
str_verbose_run    == <<"v", "e", "r", "b", "o", "s", "e", "_", "r", "u", "n">>
str_running        == <<"R", "u", "n", "n", "i", "n", "g", ":", " ">>
str_print_cmd      == <<"p", "r", "i", "n", "t", "_", "c", "m", "d">>
str_command_msg    == <<"C", "o", "m", "m", "a", "n", "d", ":", " ">>
str_systemctl      == <<"s", "y", "s", "t", "e", "m", "c", "t", "l">>
str_restart        == <<"r", "e", "s", "t", "a", "r", "t">>
str_nginx          == <<"n", "g", "i", "n", "x">>
str_docker         == <<"d", "o", "c", "k", "e", "r">>
str_ps             == <<"p", "s">>
str_jq             == <<"j", "q">>
str_dot_data       == <<".", "d", "a", "t", "a">>
str_file_json      == <<"f", "i", "l", "e", ".", "j", "s", "o", "n">>
str_Xorg           == <<"X", "o", "r", "g">>
str_f           == <<"f">>

(***************************************************************************)
(* Scripts: the syntax trees the parser hands to the walkers               *)
(***************************************************************************)

QuotedAt   == <<DblQuoted(<<ParamExp(str_at)>>)>>    \* "$@"
QuotedStar == <<DblQuoted(<<ParamExp(str_star)>>)>>  \* "$*"
BareAt     == <<ParamExp(str_at)>>                   \* $@

\* vr() { "$@"; }
fn_vr == FuncDecl(str_vr, <<Call(<<QuotedAt>>)>>)
\* print_args() { echo "$@"; }
fn_print_args == FuncDecl(str_pa, <<Call(<<W(str_echo), QuotedAt>>)>>)
\* ls() { :; }
fn_ls == FuncDecl(str_ls, <<Call(<<W(str_colon)>>)>>)

\* ls /etc
call_ls == Call(<<W(str_ls), W(str_etc)>>)
\* grep pattern file
call_grep == Call(<<W(str_grep), W(str_pattern), W(str_file)>>)
\* vr ls /etc
call_vr_ls == Call(<<W(str_vr), W(str_ls), W(str_etc)>>)
\* vr echo hi
call_vr_echo == Call(<<W(str_vr), W(str_echo), W(str_hi)>>)
\* vr /usr/bin/apt update
call_vr_apt == Call(<<W(str_vr), W(str_apt), W(str_update)>>)
\* vr ${X}ls y
call_vr_var == Call(<<W(str_vr), <<ParamExp(str_X), Lit(str_ls)>>, W(str_y)>>)
\* vr ll
call_vr_ll == Call(<<W(str_vr), W(str_ll)>>)
\* vr
call_vr == Call(<<W(str_vr)>>)
\* print_args ls /etc
call_print_args == Call(<<W(str_pa), W(str_ls), W(str_etc)>>)
\* alias ll='ls -la'
call_alias_ll == Call(<<W(str_alias), <<Lit(str_ll_def), SglQuoted(str_ls_la)>>>>)
\* ll /tmp
call_ll == Call(<<W(str_ll), W(str_tmp)>>)
\* alias a=x b=y
call_alias_a_b == Call(<<W(str_alias), W(str_a_x), W(str_b_y)>>)
\* b
call_b == Call(<<W(str_b)>>)
\* ${TOOL}ctl x
call_toolctl == Call(<<<<ParamExp(str_TOOL), Lit(str_ctl)>>, W(str_x)>>)
\* pre$X y
call_pre == Call(<<<<Lit(str_pre), ParamExp(str_X)>>, W(str_y)>>)
\* ${BIN}/tool z
call_bintool == Call(<<<<ParamExp(str_BIN), Lit(str_slash_tool)>>, W(str_z)>>)
\* *.sh y
call_glob == Call(<<W(str_glob_sh), W(str_y)>>)
\* /sbin/sudo ls -l
call_sudo == Call(<<W(str_sudo), W(str_ls), W(str_dash_l)>>)
\* echo hi
call_echo == Call(<<W(str_echo), W(str_hi)>>)
\* $cmd arg
call_var == Call(<<<<ParamExp(str_cmd)>>, W(str_arg)>>)
\* '$x' y
call_quoted_dollar == Call(<<<<SglQuoted(str_dollar_x)>>, W(str_y)>>)
\* Xorg
call_Xorg == Call(<<W(str_Xorg)>>)

\* The statements the generated scripts are built from.
StmtPool ==
    { fn_vr, fn_print_args, fn_ls,
      call_ls, call_vr_ls, call_vr_ll, call_vr_echo, call_vr_var,
      call_print_args, call_alias_ll, call_ll, call_pre, call_bintool,
      call_glob, call_sudo }

\* The longest generated script, in statements.
MaxStmts == 2

GeneratedScripts ==
    UNION { [1..n -> StmtPool] : n \in 1..MaxStmts }

\* README "Example Script Analysis" and TestExtractDeps "example from prompt":
\*   stderr() { echo "this is a thing:" "$@" 1>&2; }
\*   out=$(grep stuff /etc/passwd)
\*   out2=$(echo "$out" | awk -F: '{print $3}')
\*   if [ -n "$out2" ]; then bobob --check thing
\*   elif test -s /tt; then /sbin/sudo ls -l; stderr "Oh no, tt is not there"; fi
ScriptReadme ==
    << FuncDecl(str_stderr,
           <<Call(<<W(str_echo), <<DblQuoted(<<Lit(str_thing_msg)>>)>>, QuotedAt>>)>>),
       CallExpr(<<<<CmdSubst(<<Call(<<W(str_grep), W(str_stuff), W(str_passwd)>>)>>)>>>>,
                <<>>),
       CallExpr(<<<<CmdSubst(<<Block(
                    <<Call(<<W(str_echo), <<DblQuoted(<<ParamExp(str_out)>>)>>>>),
                      Call(<<W(str_awk), W(str_dash_F), <<SglQuoted(str_print3)>>>>)>>)>>)>>>>,
                <<>>),
       Block(<<Call(<<W(str_lbracket), W(str_dash_n),
                      <<DblQuoted(<<ParamExp(str_out2)>>)>>, W(str_rbracket)>>),
               Call(<<W(str_bobob), W(str_check), W(str_thing)>>),
               Block(<<Call(<<W(str_test), W(str_dash_s), W(str_tt)>>),
                       call_sudo,
                       Call(<<W(str_stderr), <<DblQuoted(<<Lit(str_oh_no)>>)>>>>)>>)>>) >>

\* TestExtractDeps "absolute paths":  /usr/bin/sudo ls ; /sbin/modprobe foo
ScriptAbsolutePaths ==
    << Call(<<W(str_usr_sudo), W(str_ls)>>),
       Call(<<W(str_modprobe), W(str_foo)>>) >>

\* TestExtractDeps "exclude shell builtins":
\*   echo "hello"; cd /tmp; export FOO=bar; test -f file; [ -n "$var" ]
ScriptBuiltinsOnly ==
    << Call(<<W(str_echo), <<DblQuoted(<<Lit(str_hello)>>)>>>>),
       Call(<<W(str_cd), W(str_tmp)>>),
       Call(<<W(str_export), W(str_FOO_bar)>>),
       Call(<<W(str_test), W(str_dash_f), W(str_file)>>),
       Call(<<W(str_lbracket), W(str_dash_n),
              <<DblQuoted(<<ParamExp(str_var)>>)>>, W(str_rbracket)>>) >>

\* TestExtractDeps "non-wrapper function should not trigger":
\*   print_args() { echo "$@"; }; print_args ls /etc; grep pattern file
ScriptNonWrapper ==
    << fn_print_args, call_print_args, call_grep >>

\* TestExtractDeps "wrapper function with unquoted $@":
\*   run_cmd() { echo "Executing: $@"; $@; }
\*   run_cmd grep pattern file.txt; run_cmd awk '{print $1}' data.txt
ScriptUnquotedAt ==
    << FuncDecl(str_run_cmd,
           <<Call(<<W(str_echo),
                    <<DblQuoted(<<Lit(str_executing), ParamExp(str_at)>>)>>>>),
             Call(<<BareAt>>)>>),
       Call(<<W(str_run_cmd), W(str_grep), W(str_pattern), W(str_pattern_txt)>>),
       Call(<<W(str_run_cmd), W(str_awk), <<SglQuoted(str_print1)>>, W(str_data_txt)>>) >>

\* TestExtractDeps "wrapper function with $*":
\*   execute() { "$*"; }; execute find . -name "*.txt"
ScriptStar ==
    << FuncDecl(str_execute, <<Call(<<QuotedStar>>)>>),
       Call(<<W(str_execute), W(str_find), W(str_dot), W(str_dash_name),
              <<DblQuoted(<<Lit(str_glob_txt)>>)>>>>) >>

\* A wrapper declared inside another function, and a call placed before it:
\*   outer ls; outer() { inner() { "$@"; }; }; inner grep
ScriptNested ==
    << Call(<<W(str_outer), W(str_ls)>>),
       FuncDecl(str_outer, <<FuncDecl(str_inner, <<Call(<<QuotedAt>>)>>)>>),
       Call(<<W(str_inner), W(str_grep)>>) >>

\* A name declared twice, once as a wrapper:
\*   f() { "$@"; }; f() { echo hi; }; f ls
ScriptRedeclared ==
    << FuncDecl(str_f, <<Call(<<QuotedAt>>)>>),
       FuncDecl(str_f, <<call_echo>>),
       Call(<<W(str_f), W(str_ls)>>) >>

\* An alias passed to a wrapper:  vr() { "$@"; }; alias ll='ls -la'; vr ll
ScriptAliasToWrapper ==
    << fn_vr, call_alias_ll, call_vr_ll >>

\* TestExtractDeps "mixed wrappers and non-wrappers":
\*   verbose_run() { echo "Running: $@"; "$@"; }
\*   print_cmd() { echo "Command: $@"; }
\*   verbose_run systemctl restart nginx; print_cmd docker ps; jq '.data' file.json
ScriptMixed ==
    << FuncDecl(str_verbose_run,
           <<Call(<<W(str_echo),
                    <<DblQuoted(<<Lit(str_running), ParamExp(str_at)>>)>>>>),
             Call(<<QuotedAt>>)>>),
       FuncDecl(str_print_cmd,
           <<Call(<<W(str_echo),
                    <<DblQuoted(<<Lit(str_command_msg), ParamExp(str_at)>>)>>>>)>>),
       Call(<<W(str_verbose_run), W(str_systemctl), W(str_restart), W(str_nginx)>>),
       Call(<<W(str_print_cmd), W(str_docker), W(str_ps)>>),
       Call(<<W(str_jq), <<SglQuoted(str_dot_data)>>, W(str_file_json)>>) >>

\* One command reached directly and through a wrapper, among others:
\*   vr() { "$@"; }; vr ls /etc; ls /etc; Xorg; vr /usr/bin/apt update; grep pattern file
ScriptBothRoutes ==
    << fn_vr, call_vr_ls, call_ls, call_Xorg, call_vr_apt, call_grep >>

\* Short scripts around one statement each.
ShortScripts ==
    { <<call_toolctl>>, <<call_var>>, <<call_quoted_dollar>>, <<call_echo>>,
      <<call_Xorg, call_grep>>, <<call_vr_apt, fn_vr>>,
      <<fn_vr, call_vr>>, <<call_alias_a_b, call_b>>, <<call_b, call_alias_a_b>> }

LibraryScripts ==
    { ScriptReadme, ScriptAbsolutePaths, ScriptBuiltinsOnly, ScriptNonWrapper,
      ScriptUnquotedAt, ScriptStar, ScriptNested, ScriptRedeclared,
      ScriptAliasToWrapper, ScriptMixed, ScriptBothRoutes }

Scripts == LibraryScripts \cup ShortScripts \cup GeneratedScripts

\* The messages of the parser's syntax errors.
ParserMessages ==
    { "test.sh:1:6: reached EOF without closing quote '",
      "test.sh:2:1: \"if <cond>\" must be followed by \"then\"" }

\* What parser.Parse returns for a script text: a file and no error, or an
\* error together with the file as far as it was built.
ParseResults ==
    { [err |-> "", file |-> f] : f \in Scripts }
    \cup { [err |-> m, file |-> f] :
             m \in ParserMessages, f \in {<<>>, <<call_ls>>, <<fn_vr, call_vr_ls>>} }

(***************************************************************************)
(* extractDeps as a state machine                                          *)
(***************************************************************************)

\* How many times extractDeps is run on the same script text.
NumRuns == 2

VARIABLES
    parsed,        \* what parser.Parse returned for the script text
    pc,            \* the position in extractDeps
    idx,           \* the next node the current walk hands to its callback
    funcs,         \* the map funcs, as the set of its keys
    aliases,       \* the map aliases
    wrapperFuncs,  \* the map wrapperFuncs
    deps,          \* the map deps
    slice,         \* the local result as the range loop over deps filled it
    outputs,       \* the (result, error) pair of every finished run
    arg,           \* matchesFlag: the argument
    flag,          \* matchesFlag: the rule flag
    matched,       \* matchesFlag: its return value, "none" before the call
    searchPath,        \* the directories of the search path (filepath.SplitList)
    fs,                \* the directory tree: what each directory holds under each name
    incompatibilities, \* CheckGNUCompatibilityAST: the findings appended so far
    providerCache,     \* CheckGNUCompatWithPath: the map providerCache
    filtered,          \* CheckGNUCompatWithPath: the slice filtered
    fidx,              \* the next finding the filter loop reads
    info,              \* DetectCommandProvider: the ProviderInfo it is filling
    dirIdx,            \* DetectCommandProvider: the next directory of its loop
    lstats,            \* the paths handed to os.Lstat so far, in call order
    packageList,       \* the declared packages
    required,          \* the commands to look for (deps)
    hasCoreutils,      \* what HasGNUCoreutils returned, <<>> before the call
    missing,           \* what the missing-command lookup returned, "none" before
    mode,              \* the command that is run over the files
    files,             \* the scripts of the run, in the order they are processed
    fileIdx,           \* the next script of the loop over the files
    results,           \* the slice results
    hadErrors,         \* hadErrors of show and scan
    hasIssues,         \* hasIssues of check, check-package and runCheck
    strict,            \* the flag --strict
    checkGNUCompat,    \* cfg.checkGNUCompat of runCheck
    shouldCheckGNU,    \* shouldCheckGNU of runCheck
    runtimeDeps,       \* runtimeDepsInfo of check-package
    result,            \* the result of the script that is being processed
    written,           \* what outputResults has written: the results it was given
    status,            \* what Run returned: "running" until it has
    content,           \* a file handed to extractShebang and isShellScript
    shell,             \* what extractShebang returned, in a sequence
    isShell            \* what isShellScript returned, in a sequence

depsVars == <<parsed, pc, idx, funcs, aliases, wrapperFuncs, deps, slice, outputs>>
flagVars == <<arg, flag, matched>>
compatVars == <<searchPath, fs, incompatibilities, providerCache, filtered,
                fidx, info, dirIdx, lstats>>
lookupVars == <<packageList, required, hasCoreutils, missing>>
batchVars == <<mode, files, fileIdx, results, hadErrors, hasIssues, strict,
               checkGNUCompat, shouldCheckGNU, runtimeDeps, result, written,
               status>>
shebangVars == <<content, shell, isShell>>
vars     == <<depsVars, flagVars, compatVars, lookupVars, batchVars, shebangVars, tableVars>>

\* No run over several files is going on.
ShebangIdle ==
    /\ content = <<>>
    /\ shell = <<>>
    /\ isShell = <<>>

BatchRunIdle ==
    /\ mode = "none"
    /\ files = <<>>
    /\ fileIdx = 1
    /\ results = <<>>
    /\ hadErrors = FALSE
    /\ hasIssues = FALSE
    /\ strict = FALSE
    /\ checkGNUCompat = FALSE
    /\ shouldCheckGNU = FALSE
    /\ runtimeDeps = [HasBusybox |-> FALSE, HasCoreutils |-> FALSE, AllDeps |-> <<>>]
    /\ result = <<>>
    /\ written = <<>>
    /\ status = "running"

BatchIdle ==
    /\ mode = "none"
    /\ files = <<>>
    /\ fileIdx = 1
    /\ results = <<>>
    /\ hadErrors = FALSE
    /\ hasIssues = FALSE
    /\ strict = FALSE
    /\ checkGNUCompat = FALSE
    /\ shouldCheckGNU = FALSE
    /\ runtimeDeps = [HasBusybox |-> FALSE, HasCoreutils |-> FALSE, AllDeps |-> <<>>]
    /\ result = <<>>
    /\ written = <<>>
    /\ status = "running"
    /\ ShebangIdle

\* The compatibility checker and the provider resolver before any call.
CompatIdle ==
    /\ searchPath = <<>>
    /\ fs = <<>>
    /\ incompatibilities = <<>>
    /\ providerCache = <<>>
    /\ filtered = <<>>
    /\ fidx = 1
    /\ info = <<>>
    /\ dirIdx = 1
    /\ lstats = <<>>
    /\ packageList = <<>>
    /\ required = <<>>
    /\ hasCoreutils = <<>>
    /\ missing = "none"
    /\ BatchIdle

\* The nodes of the parsed file, in walk order.
Nodes == WalkStmts(parsed.file)

\* A returned slice: nil, or its elements.
NilSlice      == [isNil |-> TRUE, items |-> <<>>]
SliceOf(items) == [isNil |-> FALSE, items |-> items]

\* The first walk's callback on a FuncDecl: the function names it records.
collectFuncs(n) ==
    IF n.type = "FuncDecl" THEN {n.Name} ELSE {}

\* ... and the wrapper functions it records.
collectWrapperFuncs(n) ==
    IF n.type = "FuncDecl" /\ executesArguments(n.Body) THEN {n.Name} ELSE {}

\* The first walk's callback on a CallExpr: the alias name it records.
collectAliases(n) ==
    IF /\ n.type = "CallExpr"
       /\ Len(n.Args) > 0
       /\ Len(n.Args[1]) > 0
       /\ n.Args[1][1].type = "Lit"
       /\ n.Args[1][1].Value = str_alias
       /\ Len(n.Args) > 1
    THEN LET aliasStr == wordToString(n.Args[2])
             i        == Index(aliasStr, str_eq)
         IN  IF i > 0 THEN {SubSeq(aliasStr, 1, i)} ELSE {}
    ELSE {}

\* acceptsWrapperArg without the alias check.
acceptsWrapperArgNoAliases(firstArg) ==
    /\ firstArg \notin shellBuiltins
    /\ firstArg \notin funcs
    /\ firstArg # <<>>
    /\ \/ HasPrefix(firstArg, str_slash)
       \/ /\ ~Contains(firstArg, str_dollar)
          /\ ~Contains(firstArg, str_star)

\* The filter on the first argument of a call to a wrapper function.
acceptsWrapperArg(firstArg) ==
    /\ firstArg \notin shellBuiltins
    /\ firstArg \notin funcs
    /\ firstArg \notin aliases
    /\ firstArg # <<>>
    /\ \/ HasPrefix(firstArg, str_slash)
       \/ /\ ~Contains(firstArg, str_dollar)
          /\ ~Contains(firstArg, str_star)

\* acceptsCommand with the absolute-path test turned round.
acceptsCommandRelativeOnly(cmdName) ==
    /\ cmdName \notin shellBuiltins
    /\ cmdName \notin funcs
    /\ cmdName \notin aliases
    /\ cmdName # <<>>
    /\ ~HasPrefix(cmdName, str_slash)
    /\ ~Contains(cmdName, str_dollar)
    /\ ~Contains(cmdName, str_star)

\* The filter on the command name of a call.
acceptsCommand(cmdName) ==
    /\ cmdName \notin shellBuiltins
    /\ cmdName \notin funcs
    /\ cmdName \notin aliases
    /\ cmdName # <<>>
    /\ \/ HasPrefix(cmdName, str_slash)
       \/ /\ ~Contains(cmdName, str_dollar)
          /\ ~Contains(cmdName, str_star)

\* wrapperDeps treating every declared function as a wrapper.
wrapperDepsAnyFunction(n) ==
    IF /\ n.type = "CallExpr"
       /\ Len(n.Args) > 0
       /\ wordToString(n.Args[1]) \in funcs
       /\ Len(n.Args) > 1
       /\ acceptsWrapperArg(wordToString(n.Args[2]))
    THEN {wordToString(n.Args[2])}
    ELSE {}

\* The second walk's callback: what a node adds to deps through the
\* wrapper-function route ...
wrapperDeps(n) ==
    IF /\ n.type = "CallExpr"
       /\ Len(n.Args) > 0
       /\ wordToString(n.Args[1]) \in wrapperFuncs
       /\ Len(n.Args) > 1
       /\ acceptsWrapperArg(wordToString(n.Args[2]))
    THEN {wordToString(n.Args[2])}
    ELSE {}

\* directDeps taking the word after an absolute-path command (sudo, env)
\* for a command as well.
directDepsThroughSudo(n) ==
    IF /\ n.type = "CallExpr"
       /\ Len(n.Args) > 0
       /\ acceptsCommand(wordToString(n.Args[1]))
    THEN {wordToString(n.Args[1])}
         \cup (IF /\ HasPrefix(wordToString(n.Args[1]), str_slash)
                  /\ Len(n.Args) > 1
                  /\ acceptsCommand(wordToString(n.Args[2]))
               THEN {wordToString(n.Args[2])} ELSE {})
    ELSE {}

\* ... and as a direct command invocation.
directDeps(n) ==
    IF /\ n.type = "CallExpr"
       /\ Len(n.Args) > 0
       /\ acceptsCommand(wordToString(n.Args[1]))
    THEN {wordToString(n.Args[1])}
    ELSE {}

\* ParseScript going on with the file the parser built so far.
ParseScriptDroppingError ==
    /\ pc = "parse"
    /\ pc' = "collect"
    /\ funcs' = {} /\ aliases' = {} /\ wrapperFuncs' = {} /\ deps' = {}
    /\ idx' = 1
    /\ slice' = <<>>
    /\ UNCHANGED <<parsed, outputs, flagVars, compatVars, lookupVars, batchVars, shebangVars, tableVars>>

\* parser.Parse and, on an error, the early return.
ParseScript ==
    /\ pc = "parse"
    /\ IF parsed.err # ""
       THEN /\ outputs' = Append(outputs,
                   [result |-> NilSlice, err |-> <<"parse error: ", parsed.err>>])
            /\ pc' = "done"
       ELSE /\ pc' = "collect"
            /\ UNCHANGED outputs
    /\ funcs' = {} /\ aliases' = {} /\ wrapperFuncs' = {} /\ deps' = {}
    /\ idx' = 1
    /\ slice' = <<>>
    /\ UNCHANGED <<parsed, flagVars, compatVars, lookupVars, batchVars, shebangVars, tableVars>>

\* First pass, one node.
CollectNode ==
    /\ pc = "collect"
    /\ idx <= Len(Nodes)
    /\ funcs' = funcs \cup collectFuncs(Nodes[idx])
    /\ wrapperFuncs' = wrapperFuncs \cup collectWrapperFuncs(Nodes[idx])
    /\ aliases' = aliases \cup collectAliases(Nodes[idx])
    /\ idx' = idx + 1
    /\ UNCHANGED <<parsed, pc, deps, slice, outputs, flagVars, compatVars, lookupVars, batchVars, shebangVars, tableVars>>

\* The first walk returns; the second starts.
CollectDone ==
    /\ pc = "collect"
    /\ idx > Len(Nodes)
    /\ pc' = "extract"
    /\ idx' = 1
    /\ UNCHANGED <<parsed, funcs, aliases, wrapperFuncs, deps, slice, outputs, flagVars, compatVars, lookupVars, batchVars, shebangVars, tableVars>>

\* Second pass, one node.
ExtractNode ==
    /\ pc = "extract"
    /\ idx <= Len(Nodes)
    /\ deps' = deps \cup wrapperDeps(Nodes[idx]) \cup directDeps(Nodes[idx])
    /\ idx' = idx + 1
    /\ UNCHANGED <<parsed, pc, funcs, aliases, wrapperFuncs, slice, outputs, flagVars, compatVars, lookupVars, batchVars, shebangVars, tableVars>>

\* The second walk returns; result is allocated.
ExtractDone ==
    /\ pc = "extract"
    /\ idx > Len(Nodes)
    /\ pc' = "range"
    /\ slice' = <<>>
    /\ UNCHANGED <<parsed, idx, funcs, aliases, wrapperFuncs, deps, outputs, flagVars, compatVars, lookupVars, batchVars, shebangVars, tableVars>>

\* One iteration of "for dep := range deps": Go fixes no order on a map.
RangeDeps ==
    /\ pc = "range"
    /\ \E dep \in deps \ Range(slice) :
           slice' = Append(slice, dep)
    /\ UNCHANGED <<parsed, pc, idx, funcs, aliases, wrapperFuncs, deps, outputs, flagVars, compatVars, lookupVars, batchVars, shebangVars, tableVars>>

\* sort.Strings(result) and the return.
SortAndReturn ==
    /\ pc = "range"
    /\ deps \ Range(slice) = {}
    /\ outputs' = Append(outputs, [result |-> SliceOf(SortStrings(slice)), err |-> <<>>])
    /\ pc' = "done"
    /\ UNCHANGED <<parsed, idx, funcs, aliases, wrapperFuncs, deps, slice, flagVars, compatVars, lookupVars, batchVars, shebangVars, tableVars>>

\* extractDeps is called again on the same script text.
RunAgain ==
    /\ pc = "done"
    /\ Len(outputs) < NumRuns
    /\ pc' = "parse"
    /\ UNCHANGED <<parsed, idx, funcs, aliases, wrapperFuncs, deps, slice, outputs, flagVars, compatVars, lookupVars, batchVars, shebangVars, tableVars>>

Init ==
    /\ TablesLoaded
    /\ parsed \in ParseResults
    /\ pc = "parse"
    /\ idx = 1
    /\ funcs = {} /\ aliases = {} /\ wrapperFuncs = {} /\ deps = {}
    /\ slice = <<>>
    /\ outputs = <<>>
    /\ arg = <<>> /\ flag = <<>> /\ matched = "none"
    /\ CompatIdle

Next ==
    \/ ParseScript
    \/ CollectNode
    \/ CollectDone
    \/ ExtractNode
    \/ ExtractDone
    \/ RangeDeps
    \/ SortAndReturn
    \/ RunAgain

Spec == Init /\ [][Next]_vars

(***************************************************************************)
(* Properties of the dependency extractor                                  *)
(***************************************************************************)

\* The script as the properties read it, independently of the walkers' maps.
File == parsed.file

\* The calls of the script that have a command word.
Calls ==
    { n \in Range(WalkStmts(File)) : n.type = "CallExpr" /\ Len(n.Args) > 0 }

\* The function declarations of the script.
Declarations ==
    { n \in Range(WalkStmts(File)) : n.type = "FuncDecl" }

\* The names of the functions declared anywhere in the script.
DeclaredFunctions == { d.Name : d \in Declarations }

\* The script's `alias NAME=VALUE` calls.
AliasCalls ==
    { c \in Calls : /\ c.Args[1] = W(str_alias)
                    /\ Len(c.Args) >= 2
                    /\ Index(wordToString(c.Args[2]), str_eq) > 0 }

\* The names they define.
DefinedAliases ==
    { SubSeq(wordToString(c.Args[2]), 1, Index(wordToString(c.Args[2]), str_eq)) :
        c \in AliasCalls }

\* Everything that masks a command of the same name.
Masked == shellBuiltins \cup DeclaredFunctions \cup DefinedAliases

\* A part is the expansion of all positional parameters: $@ or $*.
IsAllArgs(part) ==
    part.type = "ParamExp" /\ (part.Param = str_at \/ part.Param = str_star)

\* The word has $@ or $*, unquoted or inside double quotes.
ExpandsAllArgs(word) ==
    \E i \in 1..Len(word) :
        \/ IsAllArgs(word[i])
        \/ word[i].type = "DblQuoted"
           /\ \E j \in 1..Len(word[i].Parts) : IsAllArgs(word[i].Parts[j])

\* The functions whose body contains a call with such a command word.
Wrappers ==
    { d.Name : d \in { x \in Declarations :
        \E c \in Range(WalkStmts(x.Body)) :
            c.type = "CallExpr" /\ Len(c.Args) > 0 /\ ExpandsAllArgs(c.Args[1]) } }

\* The calls to a wrapper function that pass at least one argument.
WrapperCalls ==
    { c \in Calls : wordToString(c.Args[1]) \in Wrappers /\ Len(c.Args) >= 2 }

\* The acceptance filter of a command name.
Accepted(name) ==
    /\ name # <<>>
    /\ name \notin Masked
    /\ \/ HasPrefix(name, str_slash)
       \/ ~Contains(name, str_dollar) /\ ~Contains(name, str_star)

\* Run i of extractDeps has returned without an error.
Returned(i) == i <= Len(outputs) /\ outputs[i].err = <<>>

\* The list it returned, and its elements.
ResultOf(i) == outputs[i].result.items
DepsOf(i)   == Range(ResultOf(i))

Precedes(a, b) ==
    \E k \in 1..(Len(b)) :
        /\ k - 1 <= Len(a)
        /\ SubSeq(a, 1, k - 1) = SubSeq(b, 1, k - 1)
        /\ (k > Len(a) \/ Byte(a[k]) < Byte(b[k]))

\* C2: the result is in ascending byte-wise lexicographic order and no
\* string occurs in it twice, however often and through whichever route a
\* command is invoked.
C2_SortedNoDuplicates ==
    \A i \in 1..Len(outputs) :
        Returned(i) =>
            /\ \A j \in 1..(Len(ResultOf(i)) - 1) :
                   Precedes(ResultOf(i)[j], ResultOf(i)[j + 1])
            /\ Cardinality(DepsOf(i)) = Len(ResultOf(i))

\* C2 witness: the first run has returned three or more dependencies, one
\* of them invoked both directly and through a wrapper, after its range
\* loop had met them in another order.
C2_Witness ==
    /\ Len(outputs) = 1
    /\ Returned(1)
    /\ Len(ResultOf(1)) >= 3
    /\ slice # ResultOf(1)
    /\ \E c \in Calls, w \in WrapperCalls :
           /\ wordToString(c.Args[1]) = wordToString(w.Args[2])
           /\ wordToString(c.Args[1]) \in DepsOf(1)

\* The second walk is at a call whose command is a declared function that
\* is not a wrapper.
AtNonWrapperCall ==
    /\ pc = "extract"
    /\ idx <= Len(Nodes)
    /\ Nodes[idx].type = "CallExpr"
    /\ Len(Nodes[idx].Args) > 0
    /\ wordToString(Nodes[idx].Args[1]) \in DeclaredFunctions \ Wrappers

\* C3: the first argument of a call to a wrapper function is in the result
\* iff it passes the acceptance filter of a command name; visiting a call to
\* a function that is not a wrapper adds nothing; `vr(){ "$@"; }; vr ls /etc`
\* yields [ls] and the print_args script yields [grep].
C3_WrapperArgument ==
    /\ [](\A i \in 1..Len(outputs) :
            Returned(i) =>
                /\ \A c \in WrapperCalls :
                       wordToString(c.Args[2]) \in DepsOf(i)
                           <=> Accepted(wordToString(c.Args[2]))
                /\ (File = <<fn_vr, call_vr_ls>> => ResultOf(i) = <<str_ls>>)
                /\ (File = ScriptNonWrapper => ResultOf(i) = <<str_grep>>))
    /\ [][AtNonWrapperCall => deps' = deps]_vars

\* C3 witness: a run has returned for a script with a wrapper call whose
\* first argument is accepted, a wrapper call whose first argument is
\* rejected, and a call with arguments to a function that is not a wrapper.
C3_Witness ==
    /\ Returned(1)
    /\ \E c \in WrapperCalls : Accepted(wordToString(c.Args[2]))
    /\ \E c \in Calls :
           /\ wordToString(c.Args[1]) \in DeclaredFunctions \ Wrappers
           /\ Len(c.Args) >= 2
           /\ Accepted(wordToString(c.Args[2]))

\* The collection pass of the current run is over.
Collected == pc \in {"extract", "range"} \/ (pc = "done" /\ parsed.err = "")

\* C4: after the collection pass a declared function is in wrapperFuncs iff
\* a body declared under its name contains a call whose command word has
\* $@ or $*, unquoted or inside double quotes; $@ in argument position
\* alone (print_args) does not make a wrapper.
C4_WrapperFunctionSet ==
    Collected =>
        /\ \A name \in DeclaredFunctions : name \in wrapperFuncs <=> name \in Wrappers
        /\ wrapperFuncs \subseteq DeclaredFunctions
        /\ (Declarations = {fn_print_args} => wrapperFuncs = {})

\* C4 witness: the collection pass is over for a script that declares a
\* wrapper and a function that has $@ in argument position only.
C4_Witness ==
    /\ pc = "extract"
    /\ wrapperFuncs # {}
    /\ \E d \in Declarations :
           /\ d.Name \notin wrapperFuncs
           /\ \E c \in Range(WalkStmts(d.Body)) :
                  /\ c.type = "CallExpr"
                  /\ \E k \in 2..Len(c.Args) : ExpandsAllArgs(c.Args[k])

\* The word has a parameter expansion, bare or inside double quotes, or a
\* glob character.
Undetermined(word) ==
    \E i \in 1..Len(word) :
        \/ word[i].type = "ParamExp"
        \/ word[i].type = "DblQuoted"
           /\ \E j \in 1..Len(word[i].Parts) : word[i].Parts[j].type = "ParamExp"
        \/ word[i].type = "Lit" /\ Contains(word[i].Value, str_star)

\* The source text of the word starts with a slash.
StartsWithSlash(word) ==
    /\ Len(word) > 0
    /\ word[1].type = "Lit"
    /\ HasPrefix(word[1].Value, str_slash)

\* The words a dependency can come from: the command word of every call and
\* the first argument of every call to a wrapper function.
CommandWords ==
    { c.Args[1] : c \in Calls } \cup { c.Args[2] : c \in WrapperCalls }

\* C5: a command word (or wrapper-call first argument) that has a parameter
\* expansion or a glob and does not start with a slash adds nothing: every
\* element of the result is the text of a word that is statically
\* determined or absolute.
C5_UndeterminedAddsNothing ==
    \A i \in 1..Len(outputs) :
        Returned(i) =>
            DepsOf(i) \subseteq
                { wordToString(w) :
                    w \in { x \in CommandWords : ~Undetermined(x) \/ StartsWithSlash(x) } }

\* C6 as stated: for `/sbin/sudo ls -l` the result includes "/sbin/sudo"
\* and "ls".
C6_SudoAndLs ==
    \A i \in 1..Len(outputs) :
        Returned(i) /\ File = <<call_sudo>> =>
            str_sudo \in DepsOf(i) /\ str_ls \in DepsOf(i)

\* C6 as amended: a command word that is an absolute path is reported
\* unless it is masked, and for `/sbin/sudo ls -l` the result is exactly
\* ["/sbin/sudo"]: "ls" is an argument and is not reported.
C6_AbsolutePathReported ==
    \A i \in 1..Len(outputs) :
        Returned(i) =>
            /\ \A c \in Calls :
                   /\ HasPrefix(wordToString(c.Args[1]), str_slash)
                   /\ wordToString(c.Args[1]) \notin Masked
                   => wordToString(c.Args[1]) \in DepsOf(i)
            /\ (File = <<call_sudo>> => ResultOf(i) = <<str_sudo>>)

\* C6 witness: a run has returned for the script `/sbin/sudo ls -l`.
C6_Witness ==
    Returned(1) /\ File = <<call_sudo>>

\* C7: only command words and the first arguments of wrapper calls
\* contribute; the absolute-paths script yields exactly
\* [/sbin/modprobe, /usr/bin/sudo] and the README script exactly
\* [/sbin/sudo, awk, bobob, grep].
C7_OnlyCommandWords ==
    \A i \in 1..Len(outputs) :
        Returned(i) =>
            /\ DepsOf(i) \subseteq { wordToString(w) : w \in CommandWords }
            /\ (File = ScriptAbsolutePaths
                  => ResultOf(i) = <<str_modprobe, str_usr_sudo>>)
            /\ (File = ScriptReadme
                  => ResultOf(i) = <<str_sudo, str_awk, str_bobob, str_grep>>)

\* C7 witness: a run has returned for a script in which a call through an
\* absolute path has an argument that would itself be accepted as a command.
C7_Witness ==
    /\ Returned(1)
    /\ \E c \in Calls :
           /\ HasPrefix(wordToString(c.Args[1]), str_slash)
           /\ Len(c.Args) >= 2
           /\ Accepted(wordToString(c.Args[2]))
           /\ wordToString(c.Args[2]) \notin DepsOf(1)

\* C8: when the parser rejects the script, every run returns an error that
\* wraps the parser's message and a nil list, and neither walk runs.
C8_ParseError ==
    parsed.err # "" =>
        /\ \A i \in 1..Len(outputs) :
               outputs[i] = [result |-> NilSlice,
                             err    |-> <<"parse error: ", parsed.err>>]
        /\ pc \in {"parse", "done"}
        /\ deps = {}

\* C8 witness: a run has returned after the parser rejected a script of
\* which it had already built a call.
C8_Witness ==
    /\ Len(outputs) >= 1
    /\ parsed.err # ""
    /\ Calls # {}

\* C9: all runs on the same script return the same list and error.
C9_Deterministic ==
    \A i, j \in 1..Len(outputs) : outputs[i] = outputs[j]

\* C9 witness: a second run has returned two or more dependencies, its
\* range loop having met them in an order that is not the sorted one.
C9_Witness ==
    /\ Len(outputs) = 2
    /\ Returned(1)
    /\ Len(ResultOf(2)) >= 2
    /\ slice # ResultOf(2)

(***************************************************************************)
(* matchesFlag (GNU compatibility checker)                                 *)
(***************************************************************************)

\* matchesFlag without the test that keeps long arguments from short flags.
matchesFlagAnyDash(a, f) ==
    IF a = f THEN TRUE
    ELSE IF HasPrefix(f, <<"-", "-">>) /\ HasPrefix(a, f \o <<"=">>) THEN TRUE
    ELSE IF /\ Len(f) = 2 /\ f[1] = "-" /\ f[2] # "-"
            /\ HasPrefix(a, <<"-">>)
         THEN Contains(a, <<f[2]>>)
    ELSE FALSE

\* matchesFlag: does the argument use the rule flag?
matchesFlag(a, f) ==
    IF a = f THEN TRUE
    ELSE IF HasPrefix(f, <<"-", "-">>) /\ HasPrefix(a, f \o <<"=">>) THEN TRUE
    ELSE IF /\ Len(f) = 2 /\ f[1] = "-" /\ f[2] # "-"
            /\ HasPrefix(a, <<"-">>) /\ ~HasPrefix(a, <<"-", "-">>)
         THEN Contains(a, <<f[2]>>)
    ELSE FALSE

\* The characters the generated arguments and flags are made of.
FlagAlphabet == {"-", "=", "D", "m"}

\* The longest generated argument and the longest generated flag.
MaxArgLen  == 4
MaxFlagLen == 3

StringsUpTo(n) == UNION { [1..k -> FlagAlphabet] : k \in 0..n }

\* The (arg, flag) pairs of TestMatchesFlag.
TestMatchesFlagPairs ==
    { <<str_reflink, str_reflink>>, <<str_dash_D, str_dash_D>>,
      <<str_reflink_auto, str_reflink>>, <<str_other, str_reflink>>,
      <<str_Dm755, str_dash_D>>, <<str_m755, str_dash_D>>,
      <<str_dash_h, str_dash_h>>, <<str_dash_v, str_dash_h>> }

FlagInputs ==
    (StringsUpTo(MaxArgLen) \X StringsUpTo(MaxFlagLen)) \cup TestMatchesFlagPairs

\* The call matchesFlag(arg, flag).
MatchFlag ==
    /\ matched = "none"
    /\ matched' = IF matchesFlag(arg, flag) THEN "true" ELSE "false"
    /\ UNCHANGED <<arg, flag, depsVars, compatVars, lookupVars, batchVars, shebangVars, tableVars>>

InitFlag ==
    /\ TablesLoaded
    /\ \E p \in FlagInputs : arg = p[1] /\ flag = p[2]
    /\ matched = "none"
    /\ parsed = [err |-> "", file |-> <<>>]
    /\ pc = "idle"
    /\ idx = 1
    /\ funcs = {} /\ aliases = {} /\ wrapperFuncs = {} /\ deps = {}
    /\ slice = <<>>
    /\ outputs = <<>>
    /\ CompatIdle

NextFlag == MatchFlag

SpecFlag == InitFlag /\ [][NextFlag]_vars

(***************************************************************************)
(* Properties of matchesFlag                                               *)
(***************************************************************************)

\* A two-character short flag -X.
ShortFlag(f) == Len(f) = 2 /\ f[1] = "-" /\ f[2] # "-"

\* A long flag, or a long argument.
Long(a) == HasPrefix(a, <<"-", "-">>)

\* The three ways an argument matches a rule flag.
FlagMatch(a, f) ==
    \/ a = f
    \/ Long(f) /\ HasPrefix(a, f \o <<"=">>)
    \/ /\ ShortFlag(f)
       /\ HasPrefix(a, <<"-">>)
       /\ ~Long(a)
       /\ f[2] \in Range(a)

\* C10: matchesFlag(arg, flag) is true iff arg equals flag, or flag is long
\* and arg starts with flag and "=", or flag is a short flag -X and arg is a
\* short argument that contains X; so a long argument never matches a
\* different short flag, and a long flag followed by anything but "=" does
\* not match.
C10_FlagMatching ==
    matched # "none" =>
        /\ matched = "true" <=> FlagMatch(arg, flag)
        /\ (Long(arg) /\ ShortFlag(flag) => matched = "false")
        /\ ( /\ Long(flag)
             /\ HasPrefix(arg, flag)
             /\ Len(arg) > Len(flag)
             /\ arg[Len(flag) + 1] # "="
             => matched = "false" )

\* C10 witness: matchesFlag has returned true for a combined short
\* argument that is not the flag itself.
C10_Witness ==
    /\ matched = "true"
    /\ ShortFlag(flag)
    /\ arg # flag
    /\ Len(arg) > 2

(***************************************************************************)
(* Paths (path/filepath on a slash-separated system)                       *)
(***************************************************************************)

\* filepath.IsAbs.
IsAbs(path) == HasPrefix(path, <<"/">>)

RECURSIVE Elements(_, _)
\* The elements of a path between its slashes, empty elements included;
\* cur is the element being read.
Elements(path, cur) ==
    IF path = <<>> THEN <<cur>>
    ELSE IF Head(path) = "/" THEN <<cur>> \o Elements(Tail(path), <<>>)
    ELSE Elements(Tail(path), Append(cur, Head(path)))

RECURSIVE CleanElements(_, _, _)
\* filepath.Clean on the elements of a path: empty and "." elements are
\* dropped, ".." removes the element before it (at the root it is dropped,
\* at the start of a relative path it stays).
CleanElements(elems, out, rooted) ==
    IF elems = <<>> THEN out
    ELSE LET e == Head(elems)
         IN  IF e = <<>> \/ e = <<".">>
             THEN CleanElements(Tail(elems), out, rooted)
             ELSE IF e = <<".", ".">>
             THEN IF out # <<>> /\ out[Len(out)] # <<".", ".">>
                  THEN CleanElements(Tail(elems), SubSeq(out, 1, Len(out) - 1), rooted)
                  ELSE IF rooted
                  THEN CleanElements(Tail(elems), out, rooted)
                  ELSE CleanElements(Tail(elems), Append(out, e), rooted)
             ELSE CleanElements(Tail(elems), Append(out, e), rooted)

RECURSIVE JoinElements(_)
\* strings.Join(elems, "/").
JoinElements(elems) ==
    IF elems = <<>> THEN <<>>
    ELSE IF Len(elems) = 1 THEN elems[1]
    ELSE elems[1] \o <<"/">> \o JoinElements(Tail(elems))

\* filepath.Clean.
Clean(path) ==
    LET rooted == IsAbs(path)
        body   == JoinElements(CleanElements(Elements(path, <<>>), <<>>, rooted))
    IN  IF rooted THEN <<"/">> \o body
        ELSE IF body = <<>> THEN <<".">>
        ELSE body

\* filepath.Join(dir, name): the non-empty arguments joined by a slash, cleaned.
Join(dir, name) ==
    IF dir = <<>> /\ name = <<>> THEN <<>>
    ELSE IF dir = <<>> THEN Clean(name)
    ELSE IF name = <<>> THEN Clean(dir)
    ELSE Clean(dir \o <<"/">> \o name)

RECURSIVE TrimTrailingSlashes(_)
TrimTrailingSlashes(path) ==
    IF path # <<>> /\ path[Len(path)] = "/"
    THEN TrimTrailingSlashes(SubSeq(path, 1, Len(path) - 1))
    ELSE path

\* filepath.Base: the last element of a path.
Base(path) ==
    IF path = <<>> THEN <<".">>
    ELSE LET t       == TrimTrailingSlashes(path)
             slashes == { i \in 1..Len(t) : t[i] = "/" }
             last    == IF slashes = {} THEN 0
                        ELSE CHOOSE i \in slashes : \A j \in slashes : j <= i
         IN  IF t = <<>> THEN <<"/">>
             ELSE SubSeq(t, last + 1, Len(t))

(***************************************************************************)
(* The GNU compatibility checker (CheckGNUCompatibilityAST)                *)
(***************************************************************************)


\* The Fix text of a finding.
FixFor(f) ==
    <<"A", "d", "d", " ", "'", "c", "o", "r", "e", "u", "t", "i", "l", "s", "'", " ", "t", "o", " ", "r", "u", "n", "t", "i", "m", "e", " ", "d", "e", "p", "e", "n", "d", "e", "n", "c", "i", "e", "s", ",", " ", "o", "r", " ", "m", "o", "d", "i", "f", "y", " ", "s", "c", "r", "i", "p", "t", " ", "t", "o", " ", "a", "v", "o", "i", "d", " ">> \o f

\* cmdNameOf keeping an absolute command word as it is written.
cmdNameOfFullPath(call) == wordToString(call.Args[1])

\* The command name the checker looks up for a call.
cmdNameOf(call) ==
    LET cmdName == wordToString(call.Args[1])
    IN  IF HasPrefix(cmdName, <<"/">>) THEN Base(cmdName) ELSE cmdName

\* The orders in which "for flag := range gnuFlags" can meet the flags of a
\* set: Go fixes no order on a map.
RangeOrders(flags) ==
    { order \in [1..Cardinality(flags) -> flags] : Range(order) = flags }

\* The findings one argument adds for a call, in every order the range over
\* the rule flags can produce.
argFindings(cmdName, argStr, pos) ==
    LET gnuFlags == gnuOnlyFlags[cmdName]
        hits     == { f \in DOMAIN gnuFlags : matchesFlag(argStr, f) }
    IN  { [i \in 1..Len(order) |->
              [Command     |-> cmdName,
               Flag        |-> order[i],
               Pos         |-> pos,
               Description |-> gnuFlags[order[i]],
               Fix         |-> FixFor(order[i])]] : order \in RangeOrders(hits) }

RECURSIVE argsFindingsFirstHit(_, _, _, _)
\* argsFindings leaving the call at its first argument that matches.
argsFindingsFirstHit(cmdName, args, k, pos) ==
    IF k > Len(args) THEN {<<>>}
    ELSE IF argFindings(cmdName, wordToString(args[k]), pos) # {<<>>}
    THEN argFindings(cmdName, wordToString(args[k]), pos)
    ELSE argsFindingsFirstHit(cmdName, args, k + 1, pos)

RECURSIVE argsFindings(_, _, _, _)
\* ... and the arguments args[k..] of the call add.
argsFindings(cmdName, args, k, pos) ==
    IF k > Len(args) THEN {<<>>}
    ELSE { first \o rest :
             first \in argFindings(cmdName, wordToString(args[k]), pos),
             rest  \in argsFindings(cmdName, args, k + 1, pos) }

\* The walk callback of CheckGNUCompatibilityAST on node n, the pos-th node
\* of the walk: the findings it appends, in every order it can append them.
nodeFindings(n, pos) ==
    IF n.type # "CallExpr" \/ Len(n.Args) = 0 THEN {<<>>}
    ELSE IF cmdNameOf(n) \notin DOMAIN gnuOnlyFlags THEN {<<>>}
    ELSE argsFindings(cmdNameOf(n), n.Args, 2, pos)

(***************************************************************************)
(* Scripts for the compatibility checker                                   *)
(***************************************************************************)

\* realpath --no-symlinks /opt
call_realpath_nosym == Call(<<W(<<"r", "e", "a", "l", "p", "a", "t", "h">>), W(<<"-", "-", "n", "o", "-", "s", "y", "m", "l", "i", "n", "k", "s">>), W(<<"/", "o", "p", "t">>)>>)
\* path=$(realpath --no-symlinks /opt)
call_path_realpath == CallExpr(<< <<CmdSubst(<<call_realpath_nosym>>)>> >>, <<>>)
\* realpath -f /opt
call_realpath_f == Call(<<W(<<"r", "e", "a", "l", "p", "a", "t", "h">>), W(<<"-", "f">>), W(<<"/", "o", "p", "t">>)>>)
\* install -Dm755 bin /usr/local/bin/
call_install_Dm755 ==
    Call(<<W(<<"i", "n", "s", "t", "a", "l", "l">>), W(<<"-", "D", "m", "7", "5", "5">>), W(<<"b", "i", "n">>), W(<<"/", "u", "s", "r", "/", "l", "o", "c", "a", "l", "/", "b", "i", "n", "/">>)>>)
\* chmod 644 foo && some-command --reference foo
list_chmod_some ==
    Block(<<Call(<<W(<<"c", "h", "m", "o", "d">>), W(<<"6", "4", "4">>), W(<<"f", "o", "o">>)>>),
            Call(<<W(<<"s", "o", "m", "e", "-", "c", "o", "m", "m", "a", "n", "d">>), W(<<"-", "-", "r", "e", "f", "e", "r", "e", "n", "c", "e">>), W(<<"f", "o", "o">>)>>)>>)
\* chmod --reference=file1 file2
call_chmod_reference == Call(<<W(<<"c", "h", "m", "o", "d">>), W(<<"-", "-", "r", "e", "f", "e", "r", "e", "n", "c", "e", "=", "f", "i", "l", "e", "1">>), W(<<"f", "i", "l", "e", "2">>)>>)
\* /usr/bin/realpath --no-symlinks x
call_abs_realpath == Call(<<W(<<"/", "u", "s", "r", "/", "b", "i", "n", "/", "r", "e", "a", "l", "p", "a", "t", "h">>), W(<<"-", "-", "n", "o", "-", "s", "y", "m", "l", "i", "n", "k", "s">>), W(<<"x">>)>>)
\* readlink -em x
call_readlink_em == Call(<<W(<<"r", "e", "a", "d", "l", "i", "n", "k">>), W(<<"-", "e", "m">>), W(<<"x">>)>>)
\* realpath --relative-to=/a -q b
call_realpath_two ==
    Call(<<W(<<"r", "e", "a", "l", "p", "a", "t", "h">>), W(<<"-", "-", "r", "e", "l", "a", "t", "i", "v", "e", "-", "t", "o", "=", "/", "a">>), W(<<"-", "q">>), W(<<"b">>)>>)
\* realpath -q -q b
call_realpath_qq == Call(<<W(<<"r", "e", "a", "l", "p", "a", "t", "h">>), W(<<"-", "q">>), W(<<"-", "q">>), W(<<"b">>)>>)
\* realpath() { :; }
fn_realpath == FuncDecl(<<"r", "e", "a", "l", "p", "a", "t", "h">>, <<Call(<<W(<<":">>)>>)>>)
\* alias realpath='realpath -f'
call_alias_realpath ==
    Call(<<W(<<"a", "l", "i", "a", "s">>), <<Lit(<<"r", "e", "a", "l", "p", "a", "t", "h", "=">>), SglQuoted(<<"r", "e", "a", "l", "p", "a", "t", "h", " ", "-", "f">>)>>>>)
\* stat --formatted x
call_stat_formatted == Call(<<W(<<"s", "t", "a", "t">>), W(<<"-", "-", "f", "o", "r", "m", "a", "t", "t", "e", "d">>), W(<<"x">>)>>)
\* du -h | sort -h
pipe_du_sort ==
    Block(<<Call(<<W(<<"d", "u">>), W(<<"-", "h">>)>>), Call(<<W(<<"s", "o", "r", "t">>), W(<<"-", "h">>)>>)>>)
\* realpath "--no-symlinks" "$dir"
call_realpath_quoted ==
    Call(<<W(<<"r", "e", "a", "l", "p", "a", "t", "h">>), <<DblQuoted(<<Lit(<<"-", "-", "n", "o", "-", "s", "y", "m", "l", "i", "n", "k", "s">>)>>)>>,
           <<DblQuoted(<<ParamExp(<<"d", "i", "r">>)>>)>>>>)
\* $cmd --no-symlinks x
call_var_nosym == Call(<<<<ParamExp(<<"c", "m", "d">>)>>, W(<<"-", "-", "n", "o", "-", "s", "y", "m", "l", "i", "n", "k", "s">>), W(<<"x">>)>>)
\* realpath
call_realpath_bare == Call(<<W(<<"r", "e", "a", "l", "p", "a", "t", "h">>)>>)

\* The statements the generated scripts are made of.
CompatPool ==
    { call_realpath_nosym, call_path_realpath, call_realpath_f,
      call_install_Dm755, list_chmod_some, call_chmod_reference,
      call_abs_realpath, call_readlink_em, call_realpath_two,
      call_realpath_qq, fn_realpath, call_alias_realpath,
      call_stat_formatted, pipe_du_sort, call_realpath_quoted,
      call_var_nosym, call_realpath_bare, call_ls }

\* The longest generated script, in statements.
MaxCompatStmts == 2

CompatScripts ==
    UNION { [1..n -> CompatPool] : n \in 0..MaxCompatStmts }

(***************************************************************************)
(* CheckGNUCompatibilityAST as a state machine                             *)
(***************************************************************************)

\* The walk hands one node to the callback.
CheckNode ==
    /\ pc = "check"
    /\ idx <= Len(Nodes)
    /\ \E found \in nodeFindings(Nodes[idx], idx) :
           incompatibilities' = incompatibilities \o found
    /\ idx' = idx + 1
    /\ UNCHANGED <<parsed, pc, funcs, aliases, wrapperFuncs, deps, slice, outputs,
                   flagVars, searchPath, fs, providerCache, filtered, fidx,
                   info, dirIdx, lstats, lookupVars, batchVars, shebangVars, tableVars>>

\* The walk is over: CheckGNUCompatibilityAST returns incompatibilities.
CheckReturn ==
    /\ pc = "check"
    /\ idx > Len(Nodes)
    /\ pc' = "checked"
    /\ UNCHANGED <<parsed, idx, funcs, aliases, wrapperFuncs, deps, slice, outputs,
                   flagVars, compatVars, lookupVars, batchVars, shebangVars, tableVars>>

InitCompat ==
    /\ TablesLoaded
    /\ parsed \in { [err |-> "", file |-> f] : f \in CompatScripts }
    /\ pc = "check"
    /\ idx = 1
    /\ funcs = {} /\ aliases = {} /\ wrapperFuncs = {} /\ deps = {}
    /\ slice = <<>>
    /\ outputs = <<>>
    /\ arg = <<>> /\ flag = <<>> /\ matched = "none"
    /\ CompatIdle

NextCompat ==
    \/ CheckNode
    \/ CheckReturn

SpecCompat == InitCompat /\ [][NextCompat]_vars

(***************************************************************************)
(* Properties of CheckGNUCompatibilityAST                                  *)
(***************************************************************************)

\* The last element of a path that ends in a name.
LastElement(path) ==
    LET slashes == { i \in 1..Len(path) : path[i] = "/" }
    IN  IF slashes = {} THEN path
        ELSE SubSeq(path, (CHOOSE i \in slashes : \A j \in slashes : j <= i) + 1,
                    Len(path))

\* The command a call runs, as the rule table names it.
RuleCommand(n) ==
    LET word == wordToString(n.Args[1])
    IN  IF word # <<>> /\ word[1] = "/" THEN LastElement(word) ELSE word

\* The positions of the calls of the file that have a command word.
CallPositions ==
    { p \in 1..Len(Nodes) : Nodes[p].type = "CallExpr" /\ Len(Nodes[p].Args) > 0 }

\* The rule flags of a command; none for a command without rules.
RuleFlags(cmd) ==
    IF cmd \in DOMAIN gnuOnlyFlags THEN DOMAIN gnuOnlyFlags[cmd] ELSE {}

\* The arguments after the command word of the call at p that match f.
MatchingArgs(p, f) ==
    { k \in 2..Len(Nodes[p].Args) : FlagMatch(wordToString(Nodes[p].Args[k]), f) }

\* The findings that carry the call at p and the flag f.
FindingsAt(p, f) ==
    { i \in 1..Len(incompatibilities) :
        incompatibilities[i].Pos = p /\ incompatibilities[i].Flag = f }

\* The (Command, Flag) pairs of the findings, in order.
CommandsAndFlags ==
    [i \in 1..Len(incompatibilities) |->
        <<incompatibilities[i].Command, incompatibilities[i].Flag>>]

\* C11: the findings of CheckGNUCompatibilityAST are exactly one per (call,
\* argument after the command word, rule flag of the call's command) whose
\* flattened argument matches the flag, each with that call's command and
\* that flag; a GNU-only flag among the arguments of another command gives
\* nothing.  `realpath --no-symlinks /opt` gives exactly (realpath,
\* --no-symlinks), `realpath -f /opt` nothing, `install -Dm755 bin
\* /usr/local/bin/` exactly (install, -D), and `chmod 644 foo &&
\* some-command --reference foo` nothing.
C11_OneFindingPerMatch ==
    pc = "checked" =>
        /\ \A i \in 1..Len(incompatibilities) :
               LET found == incompatibilities[i]
               IN  /\ found.Pos \in CallPositions
                   /\ found.Command = RuleCommand(Nodes[found.Pos])
                   /\ found.Flag \in RuleFlags(found.Command)
        /\ \A p \in CallPositions :
               \A f \in RuleFlags(RuleCommand(Nodes[p])) :
                   Cardinality(FindingsAt(p, f)) = Cardinality(MatchingArgs(p, f))
        /\ (File = <<call_realpath_nosym>> =>
               CommandsAndFlags = <<<<<<"r", "e", "a", "l", "p", "a", "t", "h">>, <<"-", "-", "n", "o", "-", "s", "y", "m", "l", "i", "n", "k", "s">>>>>>)
        /\ (File = <<call_realpath_f>> => incompatibilities = <<>>)
        /\ (File = <<call_install_Dm755>> =>
               CommandsAndFlags = <<<<<<"i", "n", "s", "t", "a", "l", "l">>, <<"-", "D">>>>>>)
        /\ (File = <<list_chmod_some>> => incompatibilities = <<>>)

\* C11 witness: the checker has returned for a script in which one call
\* has two arguments that each match a rule flag of its command, next to a
\* call of another command.
C11_Witness ==
    /\ pc = "checked"
    /\ Len(incompatibilities) >= 2
    /\ \E p \in CallPositions :
           /\ \E f, g \in RuleFlags(RuleCommand(Nodes[p])) :
                  /\ f # g
                  /\ MatchingArgs(p, f) # {}
                  /\ MatchingArgs(p, g) # {}
                  /\ MatchingArgs(p, f) # MatchingArgs(p, g)
           /\ \E q \in CallPositions : RuleCommand(Nodes[q]) # RuleCommand(Nodes[p])

\* C12: the checker takes command names literally.  A call to a rule-table
\* command is checked also when the script declares a function or an alias
\* of that name, and for a command word that starts with "/" the rule
\* lookup and the reported Command use its base name
\* (`/usr/bin/realpath --no-symlinks x` is reported with Command realpath).
C12_LiteralCommandNames ==
    pc = "checked" =>
        /\ \A p \in CallPositions :
               LET word == wordToString(Nodes[p].Args[1])
                   name == RuleCommand(Nodes[p])
               IN  /\ ( /\ name \in DeclaredFunctions \cup DefinedAliases \cup shellBuiltins
                        /\ \E f \in RuleFlags(name) : MatchingArgs(p, f) # {}
                        => \E i \in 1..Len(incompatibilities) :
                               /\ incompatibilities[i].Pos = p
                               /\ incompatibilities[i].Command = name )
                   /\ ( /\ StartsWithSlash(Nodes[p].Args[1])
                        /\ \E f \in RuleFlags(name) : MatchingArgs(p, f) # {}
                        => \E i \in 1..Len(incompatibilities) :
                               /\ incompatibilities[i].Pos = p
                               /\ incompatibilities[i].Command = name
                               /\ incompatibilities[i].Command # word )
        /\ (File = <<call_abs_realpath>> =>
               CommandsAndFlags = <<<<<<"r", "e", "a", "l", "p", "a", "t", "h">>, <<"-", "-", "n", "o", "-", "s", "y", "m", "l", "i", "n", "k", "s">>>>>>)

\* C12 witness: a finding for a call through an absolute path to a command
\* whose name the script also declares as a function.
C12_Witness ==
    /\ pc = "checked"
    /\ \E i \in 1..Len(incompatibilities) :
           /\ StartsWithSlash(Nodes[incompatibilities[i].Pos].Args[1])
           /\ incompatibilities[i].Command \in DeclaredFunctions

(***************************************************************************)
(* The directory tree                                                      *)
(***************************************************************************)

\* What a directory holds under a name: nothing, a regular file, a
\* directory, or a symlink with its target (os.Readlink) and the path the
\* chain of links ends at (filepath.EvalSymlinks; empty when the chain
\* ends nowhere).
NoEntry   == [kind |-> "none",    target |-> <<>>, real |-> <<>>]
Regular   == [kind |-> "regular", target |-> <<>>, real |-> <<>>]
Directory == [kind |-> "dir",     target |-> <<>>, real |-> <<>>]
Symlink(target, real) == [kind |-> "symlink", target |-> target, real |-> real]

\* os.Lstat: the entry at a path; an error is the entry NoEntry.
Lstat(path) == IF path \in DOMAIN fs THEN fs[path] ELSE NoEntry

\* os.Stat follows symlinks: does it return without an error?
StatOk(path) ==
    \/ Lstat(path).kind \in {"regular", "dir"}
    \/ Lstat(path).kind = "symlink" /\ Lstat(path).real # <<>>

\* The directories of the modelled tree that hold commands.
DirNames == { <<"/", "u", "s", "r", "/", "b", "i", "n">>, <<"/", "o", "p", "t", "/", "b", "u", "s", "y", "b", "o", "x", "/", "b", "i", "n">> }

\* The entries a directory can hold under a command name.
EntriesIn(dir, cmd) ==
    { NoEntry, Regular, Directory,
      Symlink(<<"/", "b", "i", "n", "/", "b", "u", "s", "y", "b", "o", "x">>, <<"/", "b", "i", "n", "/", "b", "u", "s", "y", "b", "o", "x">>),
      Symlink(<<"/", "b", "i", "n", "/", "b", "u", "s", "y", "b", "o", "x">>, <<>>),
      Symlink(<<"b", "u", "s", "y", "b", "o", "x">>, Join(dir, <<"b", "u", "s", "y", "b", "o", "x">>)),
      Symlink(<<"/", "u", "s", "r", "/", "b", "i", "n", "/", "c", "o", "r", "e", "u", "t", "i", "l", "s">>, <<"/", "u", "s", "r", "/", "b", "i", "n", "/", "c", "o", "r", "e", "u", "t", "i", "l", "s">>),
      Symlink(<<"/", "u", "s", "r", "/", "l", "i", "b", "/", "b", "u", "s", "y", "b", "o", "x", "/">> \o cmd, <<"/", "u", "s", "r", "/", "l", "i", "b", "/", "b", "u", "s", "y", "b", "o", "x", "/">> \o cmd),
      Symlink(<<"g", "n", "u", "-">> \o cmd, Join(dir, <<"g", "n", "u", "-">> \o cmd)),
      Symlink(<<"/", "e", "t", "c", "/", "a", "l", "t", "e", "r", "n", "a", "t", "i", "v", "e", "s", "/">> \o cmd, <<"/", "b", "i", "n", "/", "b", "u", "s", "y", "b", "o", "x">>),
      Symlink(<<"/", "e", "t", "c", "/", "a", "l", "t", "e", "r", "n", "a", "t", "i", "v", "e", "s", "/">> \o cmd, <<>>) }

\* The directory trees: every entry for realpath in every directory, and
\* install as a regular file in /usr/bin or nowhere.
FileSystems ==
    { [p \in { Join(d, <<"r", "e", "a", "l", "p", "a", "t", "h">>) : d \in DirNames } \cup { <<"/", "u", "s", "r", "/", "b", "i", "n", "/", "i", "n", "s", "t", "a", "l", "l">> } |->
          IF p = <<"/", "u", "s", "r", "/", "b", "i", "n", "/", "i", "n", "s", "t", "a", "l", "l">> THEN inst ELSE rp[p]] :
        inst \in {NoEntry, Regular},
        rp \in { f \in [{ Join(d, <<"r", "e", "a", "l", "p", "a", "t", "h">>) : d \in DirNames } ->
                          UNION { EntriesIn(d, <<"r", "e", "a", "l", "p", "a", "t", "h">>) : d \in DirNames }] :
                   \A d \in DirNames :
                       f[Join(d, <<"r", "e", "a", "l", "p", "a", "t", "h">>)] \in EntriesIn(d, <<"r", "e", "a", "l", "p", "a", "t", "h">>) } }

\* The longest search path, in directories.
MaxPathLen == 2

\* The search paths: filepath.SplitList of a PATH-like string is empty only
\* for the empty string.
SearchPaths == UNION { [1..n -> DirNames] : n \in 0..MaxPathLen }

(***************************************************************************)
(* DetectCommandProvider and CheckGNUCompatWithPath                        *)
(***************************************************************************)

\* A map with one more key.
Put(m, k, v) == [x \in DOMAIN m \cup {k} |-> IF x = k THEN v ELSE m[x]]

\* The provider DetectCommandProvider names for an entry it found in dir.
classify(dir, entry) ==
    IF entry.kind = "symlink"
    THEN LET target == IF IsAbs(entry.target) THEN entry.target
                       ELSE Join(dir, entry.target)
         IN  IF Base(target) = <<"b", "u", "s", "y", "b", "o", "x">> \/ Contains(target, <<"b", "u", "s", "y", "b", "o", "x">>)
             THEN "busybox"
             ELSE IF Contains(target, <<"c", "o", "r", "e", "u", "t", "i", "l", "s">>) THEN "coreutils"
             ELSE IF entry.real # <<>> /\ Base(entry.real) = <<"b", "u", "s", "y", "b", "o", "x">> THEN "busybox"
             ELSE "unknown"
    ELSE IF entry.kind = "regular" THEN "coreutils"
    ELSE "unknown"

\* CheckGNUCompatWithPath with an empty search path returns every finding.
PathEmpty ==
    /\ pc = "checked"
    /\ mode # "check-package"
    /\ searchPath = <<>>
    /\ filtered' = incompatibilities
    /\ pc' = "returned"
    /\ UNCHANGED <<parsed, idx, funcs, aliases, wrapperFuncs, deps, slice, outputs,
                   flagVars, searchPath, fs, incompatibilities, providerCache,
                   fidx, info, dirIdx, lstats, lookupVars, batchVars, shebangVars, tableVars>>

\* ... and otherwise starts its loop over the findings.
FilterStart ==
    /\ pc = "checked"
    /\ mode # "check-package"
    /\ searchPath # <<>>
    /\ filtered' = <<>>
    /\ providerCache' = <<>>
    /\ fidx' = 1
    /\ pc' = "filter"
    /\ UNCHANGED <<parsed, idx, funcs, aliases, wrapperFuncs, deps, slice, outputs,
                   flagVars, searchPath, fs, incompatibilities, info, dirIdx, lstats, lookupVars, batchVars, shebangVars, tableVars>>

\* One finding whose command is in providerCache.
FilterCached ==
    /\ pc = "filter"
    /\ fidx <= Len(incompatibilities)
    /\ incompatibilities[fidx].Command \in DOMAIN providerCache
    /\ filtered' =
           IF providerCache[incompatibilities[fidx].Command].Provider # "coreutils"
           THEN Append(filtered, incompatibilities[fidx])
           ELSE filtered
    /\ fidx' = fidx + 1
    /\ UNCHANGED <<parsed, pc, idx, funcs, aliases, wrapperFuncs, deps, slice, outputs,
                   flagVars, searchPath, fs, incompatibilities, providerCache,
                   info, dirIdx, lstats, lookupVars, batchVars, shebangVars, tableVars>>

\* FilterLookup classifying the file at the path the call names, when the
\* call names its command by an absolute path that exists.
FilterLookupAtCallPath ==
    /\ pc = "filter"
    /\ fidx <= Len(incompatibilities)
    /\ incompatibilities[fidx].Command \notin DOMAIN providerCache
    /\ LET callPath == wordToString(Nodes[incompatibilities[fidx].Pos].Args[1])
       IN  IF IsAbs(callPath) /\ Lstat(callPath).kind # "none"
           THEN /\ info' = [Command  |-> incompatibilities[fidx].Command,
                            Path     |-> callPath,
                            Provider |-> classify(<<>>, Lstat(callPath))]
                /\ lstats' = <<callPath>>
                /\ pc' = "detected"
           ELSE /\ info' = [Command  |-> incompatibilities[fidx].Command,
                            Path     |-> <<>>,
                            Provider |-> "unknown"]
                /\ lstats' = <<>>
                /\ pc' = "detect"
    /\ dirIdx' = 1
    /\ UNCHANGED <<parsed, idx, funcs, aliases, wrapperFuncs, deps, slice, outputs,
                   flagVars, searchPath, fs, incompatibilities, providerCache,
                   filtered, fidx, lookupVars, batchVars, shebangVars, tableVars>>

\* One finding whose command is not: DetectCommandProvider is called.
FilterLookup ==
    /\ pc = "filter"
    /\ fidx <= Len(incompatibilities)
    /\ incompatibilities[fidx].Command \notin DOMAIN providerCache
    /\ info' = [Command  |-> incompatibilities[fidx].Command,
                Path     |-> <<>>,
                Provider |-> "unknown"]
    /\ dirIdx' = 1
    /\ lstats' = <<>>
    /\ pc' = "detect"
    /\ UNCHANGED <<parsed, idx, funcs, aliases, wrapperFuncs, deps, slice, outputs,
                   flagVars, searchPath, fs, incompatibilities, providerCache,
                   filtered, fidx, lookupVars, batchVars, shebangVars, tableVars>>

\* ProbeDir going on to the next directory when it cannot name a provider.
ProbeDirUntilKnown ==
    /\ pc = "detect"
    /\ dirIdx <= Len(searchPath)
    /\ LET dir     == searchPath[dirIdx]
           cmdPath == Join(dir, info.Command)
           entry   == Lstat(cmdPath)
       IN  /\ lstats' = Append(lstats, cmdPath)
           /\ IF entry.kind = "none"
              THEN /\ dirIdx' = dirIdx + 1
                   /\ UNCHANGED <<info, pc>>
              ELSE /\ info' = [info EXCEPT !.Path = cmdPath,
                                           !.Provider = classify(dir, entry)]
                   /\ IF classify(dir, entry) = "unknown"
                      THEN dirIdx' = dirIdx + 1 /\ UNCHANGED pc
                      ELSE pc' = "detected" /\ UNCHANGED dirIdx
    /\ UNCHANGED <<parsed, idx, funcs, aliases, wrapperFuncs, deps, slice, outputs,
                   flagVars, searchPath, fs, incompatibilities, providerCache,
                   filtered, fidx, lookupVars, batchVars, shebangVars, tableVars>>

\* One iteration of the loop over the directories: os.Lstat, and for an
\* entry that exists its classification and the return.  os.Readlink of an
\* entry that os.Lstat reported as a symlink succeeds: the tree does not
\* change during the call.
ProbeDir ==
    /\ pc = "detect"
    /\ dirIdx <= Len(searchPath)
    /\ LET dir     == searchPath[dirIdx]
           cmdPath == Join(dir, info.Command)
           entry   == Lstat(cmdPath)
       IN  /\ lstats' = Append(lstats, cmdPath)
           /\ IF entry.kind = "none"
              THEN /\ dirIdx' = dirIdx + 1
                   /\ UNCHANGED <<info, pc>>
              ELSE /\ info' = [info EXCEPT !.Path = cmdPath,
                                           !.Provider = classify(dir, entry)]
                   /\ pc' = "detected"
                   /\ UNCHANGED dirIdx
    /\ UNCHANGED <<parsed, idx, funcs, aliases, wrapperFuncs, deps, slice, outputs,
                   flagVars, searchPath, fs, incompatibilities, providerCache,
                   filtered, fidx, lookupVars, batchVars, shebangVars, tableVars>>

\* No directory is left: DetectCommandProvider returns info as it is.
ProbeEnd ==
    /\ pc = "detect"
    /\ dirIdx > Len(searchPath)
    /\ pc' = "detected"
    /\ UNCHANGED <<parsed, idx, funcs, aliases, wrapperFuncs, deps, slice, outputs,
                   flagVars, compatVars, lookupVars, batchVars, shebangVars, tableVars>>

\* FilterStore keeping only the findings of commands busybox provides.
FilterStoreBusyboxOnly ==
    /\ pc = "detected"
    /\ providerCache' = Put(providerCache, info.Command, info)
    /\ filtered' = IF info.Provider = "busybox"
                   THEN Append(filtered, incompatibilities[fidx])
                   ELSE filtered
    /\ fidx' = fidx + 1
    /\ pc' = "filter"
    /\ UNCHANGED <<parsed, idx, funcs, aliases, wrapperFuncs, deps, slice, outputs,
                   flagVars, searchPath, fs, incompatibilities, info, dirIdx, lstats, lookupVars, batchVars, shebangVars, tableVars>>

\* Back in the loop over the findings: the provider is cached and the
\* finding kept unless coreutils provides its command.
FilterStore ==
    /\ pc = "detected"
    /\ providerCache' = Put(providerCache, info.Command, info)
    /\ filtered' = IF info.Provider # "coreutils"
                   THEN Append(filtered, incompatibilities[fidx])
                   ELSE filtered
    /\ fidx' = fidx + 1
    /\ pc' = "filter"
    /\ UNCHANGED <<parsed, idx, funcs, aliases, wrapperFuncs, deps, slice, outputs,
                   flagVars, searchPath, fs, incompatibilities, info, dirIdx, lstats, lookupVars, batchVars, shebangVars, tableVars>>

\* The loop over the findings is over: filtered is returned.
FilterReturn ==
    /\ pc = "filter"
    /\ fidx > Len(incompatibilities)
    /\ pc' = "returned"
    /\ UNCHANGED <<parsed, idx, funcs, aliases, wrapperFuncs, deps, slice, outputs,
                   flagVars, compatVars, lookupVars, batchVars, shebangVars, tableVars>>

\* The scripts CheckGNUCompatWithPath is run on.
ProviderScripts ==
    { <<call_path_realpath>>, <<call_realpath_f>>, <<call_realpath_two>>,
      <<call_abs_realpath, call_install_Dm755>>,
      <<call_readlink_em, call_realpath_nosym>> }

InitProvider ==
    /\ TablesLoaded
    /\ parsed \in { [err |-> "", file |-> f] : f \in ProviderScripts }
    /\ pc = "check"
    /\ idx = 1
    /\ funcs = {} /\ aliases = {} /\ wrapperFuncs = {} /\ deps = {}
    /\ slice = <<>>
    /\ outputs = <<>>
    /\ arg = <<>> /\ flag = <<>> /\ matched = "none"
    /\ searchPath \in SearchPaths
    /\ fs \in FileSystems
    /\ incompatibilities = <<>>
    /\ providerCache = <<>>
    /\ filtered = <<>>
    /\ fidx = 1
    /\ info = <<>>
    /\ dirIdx = 1
    /\ lstats = <<>>
    /\ packageList = <<>>
    /\ required = <<>>
    /\ hasCoreutils = <<>>
    /\ missing = "none"
    /\ BatchIdle

NextProvider ==
    \/ CheckNode
    \/ CheckReturn
    \/ PathEmpty
    \/ FilterStart
    \/ FilterCached
    \/ FilterLookup
    \/ ProbeDir
    \/ ProbeEnd
    \/ FilterStore
    \/ FilterReturn

SpecProvider == InitProvider /\ [][NextProvider]_vars

(***************************************************************************)
(* Properties of DetectCommandProvider and CheckGNUCompatWithPath          *)
(***************************************************************************)

\* The path DetectCommandProvider looks at in the k-th directory.
PathIn(k, cmd) == Join(searchPath[k], cmd)

\* The directories of the search path that hold an entry named cmd.
Holding(cmd) ==
    { k \in 1..Len(searchPath) : Lstat(PathIn(k, cmd)).kind # "none" }

\* The first of them.
FirstHolding(cmd) == CHOOSE k \in Holding(cmd) : \A j \in Holding(cmd) : k <= j

ClaimedProvider(entry) ==
    IF entry.kind = "regular" THEN "coreutils"
    ELSE IF entry.kind = "symlink"
    THEN IF Contains(LastElement(entry.target), <<"b", "u", "s", "y", "b", "o", "x">>) THEN "busybox"
         ELSE IF Contains(entry.target, <<"c", "o", "r", "e", "u", "t", "i", "l", "s">>) THEN "coreutils"
         ELSE IF entry.real # <<>> /\ LastElement(entry.real) = <<"b", "u", "s", "y", "b", "o", "x">>
         THEN "busybox"
         ELSE "unknown"
    ELSE "unknown"

\* C14: the entry DetectCommandProvider finds is classified without
\* following symlinks: a regular file is coreutils; a symlink is busybox
\* when the base name of its target equals or contains "busybox", else
\* coreutils when the target contains "coreutils", else busybox when the
\* base name of the fully resolved path is "busybox"; any other entry is
\* unknown.  The name of the directory holding the symlink plays no part.
C14_Classification ==
    pc = "detected" /\ Holding(info.Command) # {} =>
        info.Provider =
            ClaimedProvider(Lstat(PathIn(FirstHolding(info.Command), info.Command)))

\* The provider a command resolves to in the search path.
ResolvedProvider(cmd) ==
    IF Holding(cmd) = {} THEN "unknown"
    ELSE classify(searchPath[FirstHolding(cmd)], Lstat(PathIn(FirstHolding(cmd), cmd)))

\* A finding whose command resolves to something other than coreutils.
NotCoreutils(found) == ResolvedProvider(found.Command) # "coreutils"

\* The findings of a command among a list of findings.
FindingsOf(cmd, list) == { i \in 1..Len(list) : list[i].Command = cmd }

\* C15: CheckGNUCompatWithPath returns the findings unchanged for an empty
\* search path; otherwise it keeps, in order, exactly the findings whose
\* command resolves to a provider other than coreutils (busybox and unknown
\* are kept).  With realpath a regular file every realpath finding is
\* removed, with realpath a symlink to busybox every one is kept, and the
\* findings of a command no directory holds are kept.
C15_FilterByProvider ==
    pc = "returned" =>
        /\ searchPath = <<>> => filtered = incompatibilities
        /\ searchPath # <<>> =>
               /\ filtered = SelectSeq(incompatibilities, NotCoreutils)
               /\ \A cmd \in DOMAIN gnuOnlyFlags :
                      /\ ( /\ Holding(cmd) # {}
                           /\ Lstat(PathIn(FirstHolding(cmd), cmd)) = Regular
                           => FindingsOf(cmd, filtered) = {} )
                      /\ ( /\ Holding(cmd) # {}
                           /\ Lstat(PathIn(FirstHolding(cmd), cmd)) =
                                  Symlink(<<"/", "b", "i", "n", "/", "b", "u", "s", "y", "b", "o", "x">>, <<"/", "b", "i", "n", "/", "b", "u", "s", "y", "b", "o", "x">>)
                           => Cardinality(FindingsOf(cmd, filtered)) =
                                  Cardinality(FindingsOf(cmd, incompatibilities)) )
                      /\ ( Holding(cmd) = {}
                           => Cardinality(FindingsOf(cmd, filtered)) =
                                  Cardinality(FindingsOf(cmd, incompatibilities)) )

\* C15 witness: CheckGNUCompatWithPath has returned with a finding dropped
\* for a command coreutils provides and a finding kept for a command that
\* busybox provides.
C15_Witness ==
    /\ pc = "returned"
    /\ searchPath # <<>>
    /\ \E i \in 1..Len(incompatibilities) :
           ResolvedProvider(incompatibilities[i].Command) = "coreutils"
    /\ \E i \in 1..Len(filtered) : ResolvedProvider(filtered[i].Command) = "busybox"

(***************************************************************************)
(* Packages: PackageProvides, FindMissingCommands, HasGNUCoreutils         *)
(***************************************************************************)


\* ResolveCommands reading the first package only.
ResolveCommandsFirstPackage(packages) ==
    IF packages = <<>> THEN {}
    ELSE IF Head(packages) \in DOMAIN PackageProvides
    THEN Range(PackageProvides[Head(packages)])
    ELSE {}

RECURSIVE ResolveCommands(_)
\* ResolveCommands: the commands the listed packages provide, as the set of
\* the keys of the map available; a package the table does not know adds
\* nothing.
ResolveCommands(packages) ==
    IF packages = <<>> THEN {}
    ELSE (IF Head(packages) \in DOMAIN PackageProvides
          THEN Range(PackageProvides[Head(packages)])
          ELSE {})
         \cup ResolveCommands(Tail(packages))

RECURSIVE FindMissingCommands(_, _)
\* FindMissingCommands: the required commands no listed package provides,
\* in the order of required.
FindMissingCommands(req, packages) ==
    IF req = <<>> THEN <<>>
    ELSE (IF Head(req) \notin ResolveCommands(packages) THEN <<Head(req)>> ELSE <<>>)
         \o FindMissingCommands(Tail(req), packages)

RECURSIVE HasGNUCoreutilsPrefix(_)
\* HasGNUCoreutils taking every package whose name starts with coreutils.
HasGNUCoreutilsPrefix(packages) ==
    IF packages = <<>> THEN FALSE
    ELSE IF HasPrefix(Head(packages), <<"c", "o", "r", "e", "u", "t", "i", "l", "s">>) THEN TRUE
    ELSE HasGNUCoreutilsPrefix(Tail(packages))

RECURSIVE HasGNUCoreutils(_)
\* HasGNUCoreutils: the loop returns true at the first package that is
\* "coreutils".
HasGNUCoreutils(packages) ==
    IF packages = <<>> THEN FALSE
    ELSE IF Head(packages) = <<"c", "o", "r", "e", "u", "t", "i", "l", "s">> THEN TRUE
    ELSE HasGNUCoreutils(Tail(packages))

\* The package names and the commands the lists are made of.
PackageNames ==
    { <<"b", "u", "s", "y", "b", "o", "x">>, <<"c", "u", "r", "l">>, <<"c", "o", "r", "e", "u", "t", "i", "l", "s">>, <<"C", "o", "r", "e", "u", "t", "i", "l", "s">>, <<"c", "o", "r", "e", "u", "t", "i", "l", "s", "-", "9", ".", "4">>,
      <<"n", "o", "n", "e", "x", "i", "s", "t", "e", "n", "t", "-", "p", "a", "c", "k", "a", "g", "e">> }

CommandNames == { <<"g", "r", "e", "p">>, <<"c", "u", "r", "l">>, <<"j", "q">>, <<"i", "n", "s", "t", "a", "l", "l">> }

\* The longest list of packages and the longest list of commands.
MaxPackages == 2
MaxDeps     == 3

PackageLists == UNION { [1..n -> PackageNames] : n \in 0..MaxPackages }
DepLists     == UNION { [1..n -> CommandNames] : n \in 0..MaxDeps }

\* The call HasGNUCoreutils(packageList).
CallHasGNUCoreutils ==
    /\ pc = "lookup"
    /\ hasCoreutils = <<>>
    /\ hasCoreutils' = <<HasGNUCoreutils(packageList)>>
    /\ UNCHANGED <<depsVars, flagVars, compatVars, packageList, required, missing, batchVars, shebangVars, tableVars>>

\* The call FindMissingCommands(required, packageList).
\* FindMissingCommands entering every unknown package into PackageProvides
\* with no commands.
CallFindMissingCommandsRecording ==
    /\ pc = "lookup"
    /\ missing = "none"
    /\ BatchIdle
    /\ missing' = FindMissingCommands(required, packageList)
    /\ PackageProvides' =
           [p \in DOMAIN PackageProvides \cup Range(packageList) |->
               IF p \in DOMAIN PackageProvides THEN PackageProvides[p] ELSE <<>>]
    /\ UNCHANGED <<depsVars, flagVars, compatVars, packageList, required, hasCoreutils, batchVars, shebangVars, shellBuiltins, gnuOnlyFlags>>

\* The call FindMissingCommands(required, packageList).
CallFindMissingCommands ==
    /\ pc = "lookup"
    /\ missing = "none"
    /\ BatchIdle
    /\ missing' = FindMissingCommands(required, packageList)
    /\ UNCHANGED <<depsVars, flagVars, compatVars, packageList, required, hasCoreutils, batchVars, shebangVars, tableVars>>

InitPackages ==
    /\ TablesLoaded
    /\ parsed = [err |-> "", file |-> <<>>]
    /\ pc = "lookup"
    /\ idx = 1
    /\ funcs = {} /\ aliases = {} /\ wrapperFuncs = {} /\ deps = {}
    /\ slice = <<>>
    /\ outputs = <<>>
    /\ arg = <<>> /\ flag = <<>> /\ matched = "none"
    /\ searchPath = <<>>
    /\ fs = <<>>
    /\ incompatibilities = <<>>
    /\ providerCache = <<>>
    /\ filtered = <<>>
    /\ fidx = 1
    /\ info = <<>>
    /\ dirIdx = 1
    /\ lstats = <<>>
    /\ packageList \in PackageLists
    /\ required \in DepLists
    /\ hasCoreutils = <<>>
    /\ missing = "none"
    /\ BatchIdle

NextPackages ==
    \/ CallHasGNUCoreutils
    \/ CallFindMissingCommands

SpecPackages == InitPackages /\ [][NextPackages]_vars

(***************************************************************************)
(* Properties of HasGNUCoreutils and FindMissingCommands                   *)
(***************************************************************************)

\* C16: HasGNUCoreutils(packages) is true iff some element of the list is
\* exactly "coreutils" (no other case, no prefix, no version suffix); it is
\* false for the empty list.
C16_HasGNUCoreutils ==
    hasCoreutils # <<>> =>
        /\ hasCoreutils = <<TRUE>> <=>
               \E i \in 1..Len(packageList) : packageList[i] = <<"c", "o", "r", "e", "u", "t", "i", "l", "s">>
        /\ hasCoreutils \in {<<TRUE>>, <<FALSE>>}
        /\ packageList = <<>> => hasCoreutils = <<FALSE>>
        /\ Range(packageList) \subseteq {<<"C", "o", "r", "e", "u", "t", "i", "l", "s">>, <<"c", "o", "r", "e", "u", "t", "i", "l", "s", "-", "9", ".", "4">>, <<"b", "u", "s", "y", "b", "o", "x">>}
               => hasCoreutils = <<FALSE>>

\* C16 witness: HasGNUCoreutils has returned false for a list that holds a
\* versioned coreutils package and a capitalised one.
C16_Witness ==
    /\ hasCoreutils = <<FALSE>>
    /\ <<"c", "o", "r", "e", "u", "t", "i", "l", "s", "-", "9", ".", "4">> \in Range(packageList)
    /\ <<"C", "o", "r", "e", "u", "t", "i", "l", "s">> \in Range(packageList)

\* The commands the table gives for the listed packages.
Provided(packages) ==
    { cmd \in UNION { Range(PackageProvides[p]) : p \in DOMAIN PackageProvides } :
        \E i \in 1..Len(packages) :
            /\ packages[i] \in DOMAIN PackageProvides
            /\ cmd \in Range(PackageProvides[packages[i]]) }

\* Is cmd absent from what the listed packages provide?
Absent(cmd) == cmd \notin Provided(packageList)

\* C19: FindMissingCommands(deps, packages) returns exactly the
\* dependencies absent from the union of the PackageProvides entries of the
\* listed packages; a package the table does not know adds no command and
\* is no error.  deps [grep, curl, jq] with packages [busybox] gives
\* [curl, jq], and with [busybox, curl] gives [jq].
C19_FindMissingCommands ==
    missing # "none" =>
        /\ missing = SelectSeq(required, Absent)
        /\ ( /\ required = <<<<"g", "r", "e", "p">>, <<"c", "u", "r", "l">>, <<"j", "q">>>>
             /\ packageList = <<<<"b", "u", "s", "y", "b", "o", "x">>>>
             => missing = <<<<"c", "u", "r", "l">>, <<"j", "q">>>> )
        /\ ( /\ required = <<<<"g", "r", "e", "p">>, <<"c", "u", "r", "l">>, <<"j", "q">>>>
             /\ packageList = <<<<"b", "u", "s", "y", "b", "o", "x">>, <<"c", "u", "r", "l">>>>
             => missing = <<<<"j", "q">>>> )
        /\ ( Range(packageList) = {<<"n", "o", "n", "e", "x", "i", "s", "t", "e", "n", "t", "-", "p", "a", "c", "k", "a", "g", "e">>} => missing = required )

\* C19 witness: FindMissingCommands has returned for two packages that each
\* provide one of the required commands, next to a command neither has.
C19_Witness ==
    /\ missing # "none"
    /\ packageList = <<<<"b", "u", "s", "y", "b", "o", "x">>, <<"c", "u", "r", "l">>>>
    /\ required = <<<<"g", "r", "e", "p">>, <<"c", "u", "r", "l">>, <<"j", "q">>>>

(***************************************************************************)
(* findMissingInPath                                                       *)
(***************************************************************************)

\* The inner loop of findMissingInPath that looks at the first directory
\* only.
foundInFirstDir(dirs, dep) ==
    dirs # <<>> /\ StatOk(Join(Head(dirs), dep))

RECURSIVE foundInPath(_, _)
\* The inner loop of findMissingInPath: os.Stat of the command in each
\* directory in turn, found (and break) at the first that returns no error.
foundInPath(dirs, dep) ==
    IF dirs = <<>> THEN FALSE
    ELSE IF StatOk(Join(Head(dirs), dep)) THEN TRUE
    ELSE foundInPath(Tail(dirs), dep)

RECURSIVE findMissingInPath(_, _)
\* findMissingInPath: an absolute dependency is handed to os.Stat as it is,
\* another one is looked for in the directories; the missing ones are
\* appended in the order of deps.
findMissingInPath(depsList, dirs) ==
    IF depsList = <<>> THEN <<>>
    ELSE (IF HasPrefix(Head(depsList), <<"/">>)
          THEN (IF ~StatOk(Head(depsList)) THEN <<Head(depsList)>> ELSE <<>>)
          ELSE (IF ~foundInPath(dirs, Head(depsList)) THEN <<Head(depsList)>> ELSE <<>>))
         \o findMissingInPath(Tail(depsList), dirs)

\* The dependencies looked for in the tree: bare names and absolute paths.
PathDepNames ==
    { <<"r", "e", "a", "l", "p", "a", "t", "h">>, <<"i", "n", "s", "t", "a", "l", "l">>, <<"/", "u", "s", "r", "/", "b", "i", "n", "/", "r", "e", "a", "l", "p", "a", "t", "h">>, <<"/", "u", "s", "r", "/", "b", "i", "n", "/", "i", "n", "s", "t", "a", "l", "l">> }

PathDepLists == UNION { [1..n -> PathDepNames] : n \in 0..MaxDeps }

\* The trees findMissingInPath is run on: realpath is in each directory
\* nothing, a regular file, a directory, a symlink that resolves or a
\* symlink that resolves to nothing.
StatFileSystems ==
    { t \in FileSystems :
        \A d \in DirNames :
            t[Join(d, <<"r", "e", "a", "l", "p", "a", "t", "h">>)] \in
                { NoEntry, Regular, Directory,
                  Symlink(<<"/", "b", "i", "n", "/", "b", "u", "s", "y", "b", "o", "x">>, <<"/", "b", "i", "n", "/", "b", "u", "s", "y", "b", "o", "x">>),
                  Symlink(<<"/", "b", "i", "n", "/", "b", "u", "s", "y", "b", "o", "x">>, <<>>) } }

\* The call findMissingInPath(required) with the search path searchPath.
CallFindMissingInPath ==
    /\ pc = "stat"
    /\ missing = "none"
    /\ BatchIdle
    /\ missing' = findMissingInPath(required, searchPath)
    /\ pc' = "statted"
    /\ UNCHANGED <<parsed, idx, funcs, aliases, wrapperFuncs, deps, slice, outputs,
                   flagVars, compatVars, packageList, required, hasCoreutils, batchVars, shebangVars, tableVars>>

InitMissing ==
    /\ TablesLoaded
    /\ parsed = [err |-> "", file |-> <<>>]
    /\ pc = "stat"
    /\ idx = 1
    /\ funcs = {} /\ aliases = {} /\ wrapperFuncs = {} /\ deps = {}
    /\ slice = <<>>
    /\ outputs = <<>>
    /\ arg = <<>> /\ flag = <<>> /\ matched = "none"
    /\ searchPath \in SearchPaths
    /\ fs \in StatFileSystems
    /\ incompatibilities = <<>>
    /\ providerCache = <<>>
    /\ filtered = <<>>
    /\ fidx = 1
    /\ info = <<>>
    /\ dirIdx = 1
    /\ lstats = <<>>
    /\ packageList = <<>>
    /\ required \in PathDepLists
    /\ hasCoreutils = <<>>
    /\ missing = "none"
    /\ BatchIdle

NextMissing == CallFindMissingInPath

SpecMissing == InitMissing /\ [][NextMissing]_vars

(***************************************************************************)
(* Properties of findMissingInPath                                         *)
(***************************************************************************)

\* Is there no entry at all under the name dep: at the path itself for an
\* absolute dep, in every directory of the search path for a bare name?
NoEntryOf(dep) ==
    IF IsAbs(dep) THEN Lstat(dep).kind = "none"
    ELSE \A i \in 1..Len(searchPath) : Lstat(Join(searchPath[i], dep)).kind = "none"

\* Does nothing resolve under the name dep: os.Stat fails at the path
\* itself for an absolute dep, in every directory for a bare name?
NothingResolves(dep) ==
    IF IsAbs(dep) THEN ~StatOk(dep)
    ELSE \A i \in 1..Len(searchPath) : ~StatOk(Join(searchPath[i], dep))

\* The search path with its directories in every order.
Reordered(dirs) ==
    { [i \in 1..Len(dirs) |-> dirs[p[i]]] : p \in Permutations(1..Len(dirs)) }

IsSpace(c) == c \in {" ", "\t", "\r"}

RECURSIVE TrimLeftSpace(_)
TrimLeftSpace(s) ==
    IF s # <<>> /\ IsSpace(Head(s)) THEN TrimLeftSpace(Tail(s)) ELSE s

RECURSIVE TrimRightSpace(_)
TrimRightSpace(s) ==
    IF s # <<>> /\ IsSpace(s[Len(s)])
    THEN TrimRightSpace(SubSeq(s, 1, Len(s) - 1))
    ELSE s

\* strings.TrimSpace.
TrimSpace(s) == TrimRightSpace(TrimLeftSpace(s))

RECURSIVE TrimLeftBlanks(_)
\* strings.TrimLeft(s, " ").
TrimLeftBlanks(s) ==
    IF s # <<>> /\ Head(s) = " " THEN TrimLeftBlanks(Tail(s)) ELSE s

\* strings.ToLower on ASCII letters.
lowerCase ==
    "A" :> "a" @@ "B" :> "b" @@ "C" :> "c" @@ "D" :> "d" @@ "E" :> "e" @@ "F" :> "f" @@
    "G" :> "g" @@ "H" :> "h" @@ "I" :> "i" @@ "J" :> "j" @@ "K" :> "k" @@ "L" :> "l" @@
    "M" :> "m" @@ "N" :> "n" @@ "O" :> "o" @@ "P" :> "p" @@ "Q" :> "q" @@ "R" :> "r" @@
    "S" :> "s" @@ "T" :> "t" @@ "U" :> "u" @@ "V" :> "v" @@ "W" :> "w" @@ "X" :> "x" @@
    "Y" :> "y" @@ "Z" :> "z"

ToLower(s) ==
    [i \in 1..Len(s) |-> IF s[i] \in DOMAIN lowerCase THEN lowerCase[s[i]] ELSE s[i]]

\* extractShebang on the lines of a text: what follows #! on the first
\* line, without leading blanks; empty when there is no first line or it
\* does not start with #!.  It never returns an error.
extractShebang(lines) ==
    IF lines = <<>> THEN <<>>
    ELSE LET firstLine == TrimSpace(lines[1])
         IN  IF ~HasPrefix(firstLine, <<"#", "!">>) THEN <<>>
             ELSE TrimLeftBlanks(SubSeq(firstLine, 3, Len(firstLine)))

\* regexp MatchString for the patterns of the form  cmd\s+[^|;&]*flag :
\* somewhere in the line cmd, one white space character, any characters
\* other than | ; &, and flag.
MatchString(cmd, flagText, line) ==
    \E i \in 1..Len(line), j \in 1..Len(line) :
        /\ i + Len(cmd) <= Len(line)
        /\ SubSeq(line, i, i + Len(cmd) - 1) = cmd
        /\ line[i + Len(cmd)] \in {" ", "\t", "\n", "\f", "\r"}
        /\ j >= i + Len(cmd) + 1
        /\ j + Len(flagText) - 1 <= Len(line)
        /\ SubSeq(line, j, j + Len(flagText) - 1) = flagText
        /\ \A k \in (i + Len(cmd) + 1)..(j - 1) : line[k] \notin {"|", ";", "&"}

\* gnuPatterns: the patterns of that form for realpath, stat and cp, in the
\* order of the table.
gnuPatterns ==
    << [command |-> <<"r", "e", "a", "l", "p", "a", "t", "h">>, flagText |-> <<"-", "-", "n", "o", "-", "s", "y", "m", "l", "i", "n", "k", "s">>,
        description |-> "realpath --no-symlinks (GNU only)",
        fix |-> "Add 'coreutils' to runtime dependencies"],
       [command |-> <<"r", "e", "a", "l", "p", "a", "t", "h">>, flagText |-> <<"-", "-", "r", "e", "l", "a", "t", "i", "v", "e", "-", "b", "a", "s", "e">>,
        description |-> "realpath --relative-base (GNU only)",
        fix |-> "Add 'coreutils' to runtime dependencies"],
       [command |-> <<"s", "t", "a", "t">>, flagText |-> <<"-", "-", "f", "o", "r", "m", "a", "t">>,
        description |-> "stat --format (GNU only, use -c for busybox)",
        fix |-> "Use 'stat -c' instead, or add 'coreutils' to runtime dependencies"],
       [command |-> <<"c", "p">>, flagText |-> <<"-", "-", "r", "e", "f", "l", "i", "n", "k">>,
        description |-> "cp --reflink (GNU only)",
        fix |-> "Add 'coreutils' to runtime dependencies, or remove --reflink"] >>

RECURSIVE lineFindings(_, _, _)
\* The loop over gnuPatterns for one line: a finding for each pattern that
\* matches, from the k-th pattern on.
lineFindings(line, lineNum, k) ==
    IF k > Len(gnuPatterns) THEN <<>>
    ELSE (IF MatchString(gnuPatterns[k].command, gnuPatterns[k].flagText, line)
          THEN << [Command     |-> gnuPatterns[k].command,
                   Line        |-> lineNum,
                   Description |-> gnuPatterns[k].description,
                   Fix         |-> gnuPatterns[k].fix] >>
          ELSE <<>>)
         \o lineFindings(line, lineNum, k + 1)

RECURSIVE scanLines(_, _)
\* The loop over the lines from line lineNum on: a comment line after the
\* first line is skipped.
scanLines(lines, lineNum) ==
    IF lineNum > Len(lines) THEN <<>>
    ELSE (IF lineNum > 1 /\ HasPrefix(TrimSpace(lines[lineNum]), <<"#">>)
          THEN <<>>
          ELSE lineFindings(lines[lineNum], lineNum, 1))
         \o scanLines(lines, lineNum + 1)

\* CheckGNUCompatibility(r, filename), as runCheck keeps its findings
\* (Command, Line, Description, Fix).
CheckGNUCompatibility(lines) == scanLines(lines, 1)

(***************************************************************************)
(* check-package: the runtime dependencies                                 *)
(***************************************************************************)

\* The test "dep is pkg or starts with pkg-" on the lower-cased name.
IsPackageOrVariant(dep, pkg) ==
    LET depLower == ToLower(dep)
    IN  depLower = pkg \/ HasPrefix(depLower, pkg \o <<"-">>)

\* extractRuntimeDeps and the loop of getRuntimeDeps: HasBusybox and
\* HasCoreutils of the declared runtime dependencies.
extractRuntimeDeps(depsList) ==
    [HasBusybox   |-> \E i \in 1..Len(depsList) : IsPackageOrVariant(depsList[i], <<"b", "u", "s", "y", "b", "o", "x">>),
     HasCoreutils |-> \E i \in 1..Len(depsList) : IsPackageOrVariant(depsList[i], <<"c", "o", "r", "e", "u", "t", "i", "l", "s">>),
     AllDeps      |-> depsList]

\* runtimeDepsInfo{}: what Run goes on with when getRuntimeDeps failed.
NoRuntimeDeps == [HasBusybox |-> FALSE, HasCoreutils |-> FALSE, AllDeps |-> <<>>]

(***************************************************************************)
(* Runs over several scripts: show, scan, check, check-package, runCheck   *)
(***************************************************************************)

\* curl https://example.com
call_curl == Call(<<W(<<"c", "u", "r", "l">>), W(<<"h", "t", "t", "p", "s", ":", "/", "/", "e", "x", "a", "m", "p", "l", "e", ".", "c", "o", "m">>)>>)

\* A script of a run: its name, whether os.Open succeeds, its lines, and
\* what parser.Parse returns for its text.
ScriptFile(name, readable, lines, parseErr, stmts) ==
    [name |-> name, exists |-> TRUE, readable |-> readable, lines |-> lines,
     parsed |-> [err |-> parseErr, file |-> stmts]]

\* A name under which there is no file.
NoFile(name) ==
    [name |-> name, exists |-> FALSE, readable |-> FALSE, lines |-> <<>>,
     parsed |-> [err |-> "", file |-> <<>>]]

good_sh ==
    ScriptFile("good.sh", TRUE,
               << <<"#", "!", "/", "b", "i", "n", "/", "s", "h">>, <<"g", "r", "e", "p", " ", "p", "a", "t", "t", "e", "r", "n", " ", "f", "i", "l", "e">> >>,
               "", <<call_grep>>)

\* realpath --relative-base /a /b
call_realpath_relbase ==
    Call(<<W(<<"r", "e", "a", "l", "p", "a", "t", "h">>), W(<<"-", "-", "r", "e", "l", "a", "t", "i", "v", "e", "-", "b", "a", "s", "e">>), W(<<"/", "a">>), W(<<"/", "b">>)>>)

gnu_sh ==
    ScriptFile("gnu.sh", TRUE,
               << <<"#", "!", "/", "b", "i", "n", "/", "s", "h">>, <<"p", "a", "t", "h", "=", "$", "(", "r", "e", "a", "l", "p", "a", "t", "h", " ", "-", "-", "n", "o", "-", "s", "y", "m", "l", "i", "n", "k", "s", " ", "/", "o", "p", "t", ")">>,
                  <<"r", "e", "a", "l", "p", "a", "t", "h", " ", "-", "-", "r", "e", "l", "a", "t", "i", "v", "e", "-", "b", "a", "s", "e", " ", "/", "a", " ", "/", "b">> >>,
               "", <<call_path_realpath, call_realpath_relbase>>)

mixed_sh ==
    ScriptFile("mixed.sh", TRUE,
               << <<"#", "!", "/", "b", "i", "n", "/", "b", "a", "s", "h">>, <<"c", "u", "r", "l", " ", "h", "t", "t", "p", "s", ":", "/", "/", "e", "x", "a", "m", "p", "l", "e", ".", "c", "o", "m">>,
                  <<"r", "e", "a", "l", "p", "a", "t", "h", " ", "-", "-", "n", "o", "-", "s", "y", "m", "l", "i", "n", "k", "s", " ", "/", "o", "p", "t">> >>,
               "", <<call_curl, call_realpath_nosym>>)

bad_sh ==
    ScriptFile("bad.sh", TRUE,
               << <<"#", "!", "/", "b", "i", "n", "/", "s", "h">>, <<"g", "r", "e", "p", " ", "'", "p", "a", "t", "t", "e", "r", "n", " ", "f", "i", "l", "e">> >>,
               "bad.sh:2:6: reached EOF without closing quote '", <<>>)

gone_sh ==
    ScriptFile("gone.sh", FALSE, <<>>, "", <<>>)

nofile_sh == NoFile("nofile.sh")

BatchFilePool == { good_sh, gnu_sh, mixed_sh, bad_sh, gone_sh, nofile_sh }

\* The most scripts in a run.
MaxFiles == 2

FileLists == UNION { [1..n -> BatchFilePool] : n \in 0..MaxFiles }

\* The trees of the runs: realpath a regular file in /usr/bin, a symlink to
\* busybox there, or nowhere.
BatchFileSystems ==
    { t \in FileSystems :
        /\ t[<<"/", "u", "s", "r", "/", "b", "i", "n", "/", "r", "e", "a", "l", "p", "a", "t", "h">>] \in
               {NoEntry, Regular, Symlink(<<"/", "b", "i", "n", "/", "b", "u", "s", "y", "b", "o", "x">>, <<"/", "b", "i", "n", "/", "b", "u", "s", "y", "b", "o", "x">>)}
        /\ t[<<"/", "o", "p", "t", "/", "b", "u", "s", "y", "b", "o", "x", "/", "b", "i", "n", "/", "r", "e", "a", "l", "p", "a", "t", "h">>] = NoEntry
        /\ t[<<"/", "u", "s", "r", "/", "b", "i", "n", "/", "i", "n", "s", "t", "a", "l", "l">>] = NoEntry }

\* The declared packages of the package-based runs.
BatchPackageLists ==
    { <<>>, <<<<"b", "u", "s", "y", "b", "o", "x">>>>, <<<<"b", "u", "s", "y", "b", "o", "x">>, <<"c", "o", "r", "e", "u", "t", "i", "l", "s">>>>, <<<<"c", "o", "r", "e", "u", "t", "i", "l", "s">>>>,
      <<<<"b", "a", "s", "h">>>>, <<<<"b", "u", "s", "y", "b", "o", "x">>, <<"C", "o", "r", "e", "u", "t", "i", "l", "s">>>>, <<<<"b", "u", "s", "y", "b", "o", "x">>, <<"c", "o", "r", "e", "u", "t", "i", "l", "s", "-", "9", ".", "4">>>> }

\* The settings of a run.
Config(m, path, tree, packages, strictFlag, gnuFlag) ==
    [mode |-> m, searchPath |-> path, fs |-> tree, packageList |-> packages,
     strict |-> strictFlag, checkGNUCompat |-> gnuFlag]

EmptyTree == CHOOSE t \in FileSystems : \A p \in DOMAIN t : t[p] = NoEntry

BatchConfigs ==
    { Config(m, <<>>, EmptyTree, <<>>, FALSE, FALSE) : m \in {"show", "scan"} }
    \cup { Config("show", <<<<"/", "u", "s", "r", "/", "b", "i", "n">>>>, t, <<>>, FALSE, FALSE) : t \in BatchFileSystems }
    \cup { Config("check", <<>>, EmptyTree, <<>>, st, FALSE) : st \in BOOLEAN }
    \cup { Config("check", <<<<"/", "u", "s", "r", "/", "b", "i", "n">>>>, t, <<>>, st, FALSE) :
             t \in BatchFileSystems, st \in BOOLEAN }
    \cup { Config("check-package", <<>>, EmptyTree, pk, st, FALSE) :
             pk \in BatchPackageLists, st \in BOOLEAN }
    \cup { Config("runCheck", <<>>, EmptyTree, pk, st, gnu) :
             pk \in BatchPackageLists, st \in BOOLEAN, gnu \in BOOLEAN }

\* A result with nothing filled in but the file name.
NewResult(name) ==
    [File |-> name, Shell |-> <<>>, Deps |-> NilSlice, Missing |-> <<>>,
     GNUIncompatible |-> <<>>, Error |-> <<>>]

\* err.Error() of a failed os.Open.
OpenError(f) ==
    <<"open ", f.name,
      IF f.exists THEN ": permission denied" ELSE ": no such file or directory">>

\* The test of check, check-package and runCheck after each script.
IsIssue(r) ==
    Len(r.Missing) > 0 \/ Len(r.GNUIncompatible) > 0 \/ r.Error # <<>>

\* What extractDeps returned last.
LastOutput == outputs[Len(outputs)]

walkVars     == <<idx, funcs, aliases, wrapperFuncs, deps, slice, outputs>>
providerVars == <<providerCache, filtered, fidx, info, dirIdx, lstats>>
cfgVars      == <<mode, files, strict, checkGNUCompat, searchPath, fs, packageList>>

\* runCheck before its loop: hasCoreutils and shouldCheckGNU.
RunCheckStart ==
    /\ pc = "start"
    /\ mode = "runCheck"
    /\ hasCoreutils' = <<HasGNUCoreutils(packageList)>>
    /\ shouldCheckGNU' = (checkGNUCompat /\ ~HasGNUCoreutils(packageList))
    /\ pc' = "loop"
    /\ UNCHANGED <<parsed, walkVars, flagVars, incompatibilities, providerVars,
                   cfgVars, required, missing, fileIdx, results, hadErrors,
                   hasIssues, runtimeDeps, result, written, status, shebangVars, tableVars>>

\* check-package before its loop: getRuntimeDeps succeeds, or fails and Run
\* goes on with runtimeDepsInfo{}.
GetRuntimeDeps ==
    /\ pc = "start"
    /\ mode = "check-package"
    /\ \E ok \in BOOLEAN :
           runtimeDeps' = IF ok THEN extractRuntimeDeps(packageList) ELSE NoRuntimeDeps
    /\ pc' = "loop"
    /\ UNCHANGED <<parsed, walkVars, flagVars, incompatibilities, providerVars,
                   cfgVars, required, hasCoreutils, missing, fileIdx, results,
                   hadErrors, hasIssues, shouldCheckGNU, result, written, status, shebangVars, tableVars>>

\* An iteration of show, scan or runCheck up to the call of extractDeps:
\* os.Open, extractShebang (which returns no error), Seek.
OpenScript ==
    /\ pc = "loop"
    /\ mode \in {"show", "scan", "runCheck"}
    /\ fileIdx <= Len(files)
    /\ LET f == files[fileIdx]
       IN  IF ~f.readable
           THEN /\ results' = Append(results,
                        [NewResult(f.name) EXCEPT !.Error = OpenError(f)])
                /\ hadErrors' = (hadErrors \/ mode \in {"show", "scan"})
                /\ hasIssues' = (hasIssues \/ mode = "runCheck")
                /\ fileIdx' = fileIdx + 1
                /\ UNCHANGED <<parsed, pc, result>>
           ELSE /\ result' = [NewResult(f.name) EXCEPT !.Shell = extractShebang(f.lines)]
                /\ parsed' = f.parsed
                /\ pc' = "parse"
                /\ UNCHANGED <<results, hadErrors, hasIssues, fileIdx>>
    /\ UNCHANGED <<walkVars, flagVars, incompatibilities, providerVars, cfgVars,
                   required, hasCoreutils, missing, shouldCheckGNU, runtimeDeps,
                   written, status, shebangVars, tableVars>>

\* processScript of check up to the call of extractDeps: os.Open,
\* extractShebang, parser.Parse; Run appends the result of a failure.
ProcessScript ==
    /\ pc = "loop"
    /\ mode = "check"
    /\ fileIdx <= Len(files)
    /\ LET f == files[fileIdx]
       IN  IF ~f.readable
           THEN /\ results' = Append(results,
                        [NewResult(f.name) EXCEPT !.Error = OpenError(f)])
                /\ hasIssues' = TRUE
                /\ fileIdx' = fileIdx + 1
                /\ UNCHANGED <<parsed, pc, result>>
           ELSE IF f.parsed.err # ""
           THEN /\ results' = Append(results,
                        [NewResult(f.name) EXCEPT
                             !.Shell = extractShebang(f.lines),
                             !.Error = <<"parse error: ", f.parsed.err>>])
                /\ hasIssues' = TRUE
                /\ fileIdx' = fileIdx + 1
                /\ UNCHANGED <<parsed, pc, result>>
           ELSE /\ result' = [NewResult(f.name) EXCEPT !.Shell = extractShebang(f.lines)]
                /\ parsed' = f.parsed
                /\ pc' = "parse"
                /\ UNCHANGED <<results, hasIssues, fileIdx>>
    /\ UNCHANGED <<walkVars, flagVars, incompatibilities, providerVars, cfgVars,
                   required, hasCoreutils, missing, hadErrors, shouldCheckGNU,
                   runtimeDeps, written, status, shebangVars, tableVars>>

\* checkScriptWithDeps of check-package up to the call of extractDeps: the
\* content is parsed; Run appends the result of a failure.
CheckScriptWithDeps ==
    /\ pc = "loop"
    /\ mode = "check-package"
    /\ fileIdx <= Len(files)
    /\ LET f == files[fileIdx]
       IN  IF f.parsed.err # ""
           THEN /\ results' = Append(results,
                        [NewResult(f.name) EXCEPT
                             !.Error = <<"parse error: ", f.parsed.err>>])
                /\ hasIssues' = TRUE
                /\ fileIdx' = fileIdx + 1
                /\ UNCHANGED <<parsed, pc, result>>
           ELSE /\ result' = NewResult(f.name)
                /\ parsed' = f.parsed
                /\ pc' = "parse"
                /\ UNCHANGED <<results, hasIssues, fileIdx>>
    /\ UNCHANGED <<walkVars, flagVars, incompatibilities, providerVars, cfgVars,
                   required, hasCoreutils, missing, hadErrors, shouldCheckGNU,
                   runtimeDeps, written, status, shebangVars, tableVars>>

\* ExtractFailed leaving the loop at the first error.
ExtractFailedBreak ==
    /\ pc = "done"
    /\ mode # "none"
    /\ LastOutput.err # <<>>
    /\ results' = Append(results, [result EXCEPT !.Error = LastOutput.err])
    /\ hadErrors' = (hadErrors \/ mode \in {"show", "scan"})
    /\ hasIssues' = (hasIssues \/ mode \notin {"show", "scan"})
    /\ fileIdx' = Len(files) + 1
    /\ pc' = "loop"
    /\ UNCHANGED <<parsed, walkVars, flagVars, incompatibilities, providerVars,
                   cfgVars, required, hasCoreutils, missing, shouldCheckGNU,
                   runtimeDeps, result, written, status, shebangVars, tableVars>>

\* extractDeps returned an error: the result carries it, and the loop goes
\* on with the next script.
ExtractFailed ==
    /\ pc = "done"
    /\ mode # "none"
    /\ LastOutput.err # <<>>
    /\ results' = Append(results, [result EXCEPT !.Error = LastOutput.err])
    /\ hadErrors' = (hadErrors \/ mode \in {"show", "scan"})
    /\ hasIssues' = (hasIssues \/ mode \notin {"show", "scan"})
    /\ fileIdx' = fileIdx + 1
    /\ pc' = "loop"
    /\ UNCHANGED <<parsed, walkVars, flagVars, incompatibilities, providerVars,
                   cfgVars, required, hasCoreutils, missing, shouldCheckGNU,
                   runtimeDeps, result, written, status, shebangVars, tableVars>>

\* show and scan after extractDeps: Deps, Missing when a search path is
\* given, and the result is appended.
ShowRecord ==
    /\ pc = "done"
    /\ mode \in {"show", "scan"}
    /\ LastOutput.err = <<>>
    /\ results' = Append(results,
           [result EXCEPT
                !.Deps = LastOutput.result,
                !.Missing = IF searchPath # <<>>
                            THEN findMissingInPath(LastOutput.result.items, searchPath)
                            ELSE <<>>])
    /\ fileIdx' = fileIdx + 1
    /\ pc' = "loop"
    /\ UNCHANGED <<parsed, walkVars, flagVars, incompatibilities, providerVars,
                   cfgVars, required, hasCoreutils, missing, hadErrors, hasIssues,
                   shouldCheckGNU, runtimeDeps, result, written, status, shebangVars, tableVars>>

\* processScriptForTest after extractDeps: Missing when packages are given,
\* the scanner's findings when checkGNU is set; runCheck appends the result.
RunCheckRecord ==
    /\ pc = "done"
    /\ mode = "runCheck"
    /\ LastOutput.err = <<>>
    /\ LET r == [result EXCEPT
                     !.Deps = LastOutput.result,
                     !.Missing = IF Len(packageList) > 0
                                 THEN FindMissingCommands(LastOutput.result.items, packageList)
                                 ELSE <<>>,
                     !.GNUIncompatible = IF shouldCheckGNU
                                         THEN CheckGNUCompatibility(files[fileIdx].lines)
                                         ELSE <<>>]
       IN  /\ results' = Append(results, r)
           /\ hasIssues' = (hasIssues \/ IsIssue(r))
    /\ fileIdx' = fileIdx + 1
    /\ pc' = "loop"
    /\ UNCHANGED <<parsed, walkVars, flagVars, incompatibilities, providerVars,
                   cfgVars, required, hasCoreutils, missing, hadErrors,
                   shouldCheckGNU, runtimeDeps, result, written, status, shebangVars, tableVars>>

\* CheckAfterDeps recording an error of the lookup of the missing commands
\* after Deps is set, as scan does for findMissing.
CheckAfterDepsLookupError ==
    /\ pc = "done"
    /\ mode = "check"
    /\ LastOutput.err = <<>>
    /\ results' = Append(results,
           [result EXCEPT !.Deps = LastOutput.result,
                          !.Error = <<"failed to scan ", searchPath>>])
    /\ hasIssues' = TRUE
    /\ fileIdx' = fileIdx + 1
    /\ pc' = "loop"
    /\ UNCHANGED <<parsed, walkVars, flagVars, incompatibilities, providerVars,
                   cfgVars, required, hasCoreutils, missing, hadErrors,
                   shouldCheckGNU, runtimeDeps, result, written, status, shebangVars, tableVars>>

\* processScript after extractDeps: Deps, Missing when a search path is
\* given, and the call of CheckGNUCompatWithPath.
CheckAfterDeps ==
    /\ pc = "done"
    /\ mode = "check"
    /\ LastOutput.err = <<>>
    /\ result' = [result EXCEPT
                      !.Deps = LastOutput.result,
                      !.Missing = IF searchPath # <<>>
                                  THEN findMissingInPath(LastOutput.result.items, searchPath)
                                  ELSE <<>>]
    /\ incompatibilities' = <<>>
    /\ idx' = 1
    /\ pc' = "check"
    /\ UNCHANGED <<parsed, funcs, aliases, wrapperFuncs, deps, slice, outputs,
                   flagVars, providerVars, cfgVars, required, hasCoreutils, missing,
                   fileIdx, results, hadErrors, hasIssues, shouldCheckGNU,
                   runtimeDeps, written, status, shebangVars, tableVars>>

\* CheckGNUCompatWithPath returned: its findings go into the result, which
\* Run appends.
CheckRecord ==
    /\ pc = "returned"
    /\ mode = "check"
    /\ LET r == [result EXCEPT !.GNUIncompatible = filtered]
       IN  /\ results' = Append(results, r)
           /\ hasIssues' = (hasIssues \/ IsIssue(r))
    /\ fileIdx' = fileIdx + 1
    /\ pc' = "loop"
    /\ UNCHANGED <<parsed, walkVars, flagVars, incompatibilities, providerVars,
                   cfgVars, required, hasCoreutils, missing, hadErrors,
                   shouldCheckGNU, runtimeDeps, result, written, status, shebangVars, tableVars>>

\* PackageAfterDeps calling CheckGNUCompatibilityAST whenever coreutils is
\* not declared.
PackageAfterDepsNoBusyboxTest ==
    /\ pc = "done"
    /\ mode = "check-package"
    /\ LastOutput.err = <<>>
    /\ result' = [result EXCEPT !.Deps = LastOutput.result]
    /\ IF ~runtimeDeps.HasCoreutils
       THEN /\ incompatibilities' = <<>>
            /\ idx' = 1
            /\ pc' = "check"
            /\ UNCHANGED <<results, fileIdx>>
       ELSE /\ results' = Append(results, [result EXCEPT !.Deps = LastOutput.result])
            /\ fileIdx' = fileIdx + 1
            /\ pc' = "loop"
            /\ UNCHANGED <<incompatibilities, idx>>
    /\ UNCHANGED <<parsed, funcs, aliases, wrapperFuncs, deps, slice, outputs,
                   flagVars, providerVars, cfgVars, required, hasCoreutils, missing,
                   hadErrors, hasIssues, shouldCheckGNU, runtimeDeps, written, status, shebangVars, tableVars>>

\* checkScriptWithDeps after extractDeps: Deps, and CheckGNUCompatibilityAST
\* only if busybox is declared without coreutils; otherwise the result is
\* returned and appended as it is.
PackageAfterDeps ==
    /\ pc = "done"
    /\ mode = "check-package"
    /\ LastOutput.err = <<>>
    /\ result' = [result EXCEPT !.Deps = LastOutput.result]
    /\ IF runtimeDeps.HasBusybox /\ ~runtimeDeps.HasCoreutils
       THEN /\ incompatibilities' = <<>>
            /\ idx' = 1
            /\ pc' = "check"
            /\ UNCHANGED <<results, fileIdx>>
       ELSE /\ results' = Append(results, [result EXCEPT !.Deps = LastOutput.result])
            /\ fileIdx' = fileIdx + 1
            /\ pc' = "loop"
            /\ UNCHANGED <<incompatibilities, idx>>
    /\ UNCHANGED <<parsed, funcs, aliases, wrapperFuncs, deps, slice, outputs,
                   flagVars, providerVars, cfgVars, required, hasCoreutils, missing,
                   hadErrors, hasIssues, shouldCheckGNU, runtimeDeps, written, status, shebangVars, tableVars>>

\* The Fix check-package gives every finding.
PackageFix(found) == [found EXCEPT !.Fix = "Add 'coreutils' to runtime dependencies"]

\* CheckGNUCompatibilityAST returned in checkScriptWithDeps: the findings
\* go into the result, which Run appends.
PackageRecord ==
    /\ pc = "checked"
    /\ mode = "check-package"
    /\ LET r == [result EXCEPT
                     !.GNUIncompatible =
                         [i \in 1..Len(incompatibilities) |-> PackageFix(incompatibilities[i])]]
       IN  /\ results' = Append(results, r)
           /\ hasIssues' = (hasIssues \/ IsIssue(r))
    /\ fileIdx' = fileIdx + 1
    /\ pc' = "loop"
    /\ UNCHANGED <<parsed, walkVars, flagVars, incompatibilities, providerVars,
                   cfgVars, required, hasCoreutils, missing, hadErrors,
                   shouldCheckGNU, runtimeDeps, result, written, status, shebangVars, tableVars>>

\* Finish returning before outputResults is called.
FinishBeforeOutput ==
    /\ pc \in {"loop", "output"}
    /\ fileIdx > Len(files)
    /\ status' = IF mode \in {"show", "scan"}
                 THEN (IF hadErrors THEN "errors occurred while processing files"
                       ELSE "ok")
                 ELSE (IF strict /\ hasIssues THEN "shell dependency issues found"
                       ELSE "ok")
    /\ pc' = "exit"
    /\ UNCHANGED <<parsed, walkVars, flagVars, compatVars, lookupVars, mode, files,
                   fileIdx, results, hadErrors, hasIssues, strict, checkGNUCompat,
                   shouldCheckGNU, runtimeDeps, result, written, shebangVars, tableVars>>

\* Run returns: an error after hadErrors in show and scan, an error after
\* hasIssues under --strict in the others, nil otherwise.
Finish ==
    /\ pc = "output"
    /\ status' = IF mode \in {"show", "scan"}
                 THEN (IF hadErrors THEN "errors occurred while processing files"
                       ELSE "ok")
                 ELSE (IF strict /\ hasIssues THEN "shell dependency issues found"
                       ELSE "ok")
    /\ pc' = "exit"
    /\ UNCHANGED <<parsed, walkVars, flagVars, compatVars, lookupVars, mode, files,
                   fileIdx, results, hadErrors, hasIssues, strict, checkGNUCompat,
                   shouldCheckGNU, runtimeDeps, result, written, shebangVars, tableVars>>

\* The loop is over: outputResults writes the results (writing to the
\* output does not fail).
OutputResults ==
    /\ pc = "loop"
    /\ fileIdx > Len(files)
    /\ written' = results
    /\ pc' = "output"
    /\ UNCHANGED <<parsed, walkVars, flagVars, compatVars, lookupVars, mode, files,
                   fileIdx, results, hadErrors, hasIssues, strict, checkGNUCompat,
                   shouldCheckGNU, runtimeDeps, result, status, shebangVars, tableVars>>

\* check before its loop: an argument that names no file makes Run return
\* an error at once (the arguments hold no glob pattern).
ValidateArgs ==
    /\ pc = "start"
    /\ mode = "check"
    /\ IF \E i \in 1..Len(files) : ~files[i].exists
       THEN /\ status' = "file not found"
            /\ pc' = "exit"
       ELSE /\ pc' = "loop"
            /\ UNCHANGED status
    /\ UNCHANGED <<parsed, walkVars, flagVars, compatVars, lookupVars, mode, files,
                   fileIdx, results, hadErrors, hasIssues, strict, checkGNUCompat,
                   shouldCheckGNU, runtimeDeps, result, written, shebangVars, tableVars>>

InitBatch ==
    /\ TablesLoaded
    /\ \E c \in BatchConfigs :
           /\ mode = c.mode
           /\ searchPath = c.searchPath
           /\ fs = c.fs
           /\ packageList = c.packageList
           /\ strict = c.strict
           /\ checkGNUCompat = c.checkGNUCompat
    /\ files \in FileLists
    \* scan and runCheck find their files by walking a directory, and
    \* check-package holds the text of its scripts.
    /\ mode \in {"scan", "runCheck", "check-package"} =>
           \A i \in 1..Len(files) : files[i].exists
    /\ mode = "check-package" => \A i \in 1..Len(files) : files[i].readable
    /\ pc = IF mode \in {"check", "runCheck", "check-package"} THEN "start" ELSE "loop"
    /\ parsed = [err |-> "", file |-> <<>>]
    /\ idx = 1
    /\ funcs = {} /\ aliases = {} /\ wrapperFuncs = {} /\ deps = {}
    /\ slice = <<>>
    /\ outputs = <<>>
    /\ arg = <<>> /\ flag = <<>> /\ matched = "none"
    /\ incompatibilities = <<>>
    /\ providerCache = <<>>
    /\ filtered = <<>>
    /\ fidx = 1
    /\ info = <<>>
    /\ dirIdx = 1
    /\ lstats = <<>>
    /\ required = <<>>
    /\ hasCoreutils = <<>>
    /\ missing = "none"
    /\ fileIdx = 1
    /\ results = <<>>
    /\ hadErrors = FALSE
    /\ hasIssues = FALSE
    /\ shouldCheckGNU = FALSE
    /\ runtimeDeps = NoRuntimeDeps
    /\ result = <<>>
    /\ written = <<>>
    /\ status = "running"
    /\ content = <<>>
    /\ shell = <<>>
    /\ isShell = <<>>

NextBatch ==
    \/ ValidateArgs
    \/ RunCheckStart
    \/ GetRuntimeDeps
    \/ OpenScript
    \/ ProcessScript
    \/ CheckScriptWithDeps
    \/ ParseScript
    \/ CollectNode
    \/ CollectDone
    \/ ExtractNode
    \/ ExtractDone
    \/ RangeDeps
    \/ SortAndReturn
    \/ ExtractFailed
    \/ ShowRecord
    \/ RunCheckRecord
    \/ CheckAfterDeps
    \/ PackageAfterDeps
    \/ CheckNode
    \/ CheckReturn
    \/ PathEmpty
    \/ FilterStart
    \/ FilterCached
    \/ FilterLookup
    \/ ProbeDir
    \/ ProbeEnd
    \/ FilterStore
    \/ FilterReturn
    \/ CheckRecord
    \/ PackageRecord
    \/ OutputResults
    \/ Finish

SpecBatch == InitBatch /\ [][NextBatch]_vars

(***************************************************************************)
(* Properties of the runs over several scripts                             *)
(***************************************************************************)

RECURSIVE FindingsFrom(_, _)
\* The findings CheckGNUCompatibilityAST can return for the nodes from the
\* k-th on: one sequence for each order the flags of a rule can come in.
FindingsFrom(nodes, k) ==
    IF k > Len(nodes) THEN { <<>> }
    ELSE { here \o rest : here \in nodeFindings(nodes[k], k),
                          rest \in FindingsFrom(nodes, k + 1) }

\* ... for a script.
AllFindings(f) == FindingsFrom(WalkStmts(f.parsed.file), 1)

\* The commands each script of the pool calls, sorted.
DepsAlone(f) ==
    CASE f.name = "good.sh"  -> << <<"g", "r", "e", "p">> >>
      [] f.name = "gnu.sh"   -> << <<"r", "e", "a", "l", "p", "a", "t", "h">> >>
      [] f.name = "mixed.sh" -> << <<"c", "u", "r", "l">>, <<"r", "e", "a", "l", "p", "a", "t", "h">> >>
      [] OTHER               -> <<>>

\* Does the analysis of the script fail, and with which error?
FailsAlone(f) == ~f.readable \/ f.parsed.err # ""

ErrorAlone(f) ==
    IF ~f.readable THEN OpenError(f)
    ELSE <<"parse error: ", f.parsed.err>>

\* The results show, scan and check can give for a script that is the only
\* one of its run, under the settings of the run.
ResultsAlone(f) ==
    IF FailsAlone(f)
    THEN { [NewResult(f.name) EXCEPT
                !.Shell = IF f.readable THEN extractShebang(f.lines) ELSE <<>>,
                !.Error = ErrorAlone(f)] }
    ELSE { [NewResult(f.name) EXCEPT
                !.Shell = extractShebang(f.lines),
                !.Deps = SliceOf(DepsAlone(f)),
                !.Missing = IF searchPath # <<>>
                            THEN findMissingInPath(DepsAlone(f), searchPath)
                            ELSE <<>>,
                !.GNUIncompatible =
                    IF mode # "check" THEN <<>>
                    ELSE IF searchPath = <<>> THEN found
                    ELSE SelectSeq(found, NotCoreutils)] :
           found \in AllFindings(f) }

\* C20: when several scripts are processed in one run of show, scan or
\* check, a parse error in one script aborts the analysis of that script
\* only: its result carries the error and no dependencies, every script of
\* the run gets its result, and the result of every script is the one it
\* gets when it is processed alone.
C20_ParseErrorAbortsOneScript ==
    mode \in {"show", "scan", "check"} =>
        /\ Len(results) <= Len(files)
        /\ (pc = "exit" /\ status # "file not found") => Len(results) = Len(files)
        /\ \A i \in 1..Len(results) :
               /\ results[i] \in ResultsAlone(files[i])
               /\ files[i].parsed.err # "" =>
                      /\ results[i].Error = <<"parse error: ", files[i].parsed.err>>
                      /\ results[i].Deps = NilSlice
                      /\ results[i].Missing = <<>>
                      /\ results[i].GNUIncompatible = <<>>

\* C20 witness: check has processed a script with a parse error and then a
\* script with dependencies and a finding, and has returned.
C20_Witness ==
    /\ pc = "exit"
    /\ mode = "check"
    /\ files = <<bad_sh, mixed_sh>>
    /\ results[1].Error # <<>>
    /\ results[2].Deps = SliceOf(<< <<"c", "u", "r", "l">>, <<"r", "e", "a", "l", "p", "a", "t", "h">> >>)
    /\ Len(results[2].GNUIncompatible) = 1

\* Every finding of the checker of the run for the script: the scanner's in
\* runCheck, those of CheckGNUCompatibilityAST with the Fix of check-package
\* in check-package.
EveryFinding(f) ==
    IF mode = "runCheck" THEN { CheckGNUCompatibility(f.lines) }
    ELSE { [i \in 1..Len(found) |-> PackageFix(found[i])] : found \in AllFindings(f) }

\* The results of the package-based runs for scripts that were analysed.
Analysed == { i \in 1..Len(results) : results[i].Error = <<>> }

\* Is the package, by that very name, among the declared ones?
Declared(pkg) == \E i \in 1..Len(packageList) : packageList[i] = pkg

\* C17 as stated: in a package-based run (GNU checking enabled, declared
\* packages known), reporting is suppressed for the whole run iff coreutils
\* is among the declared packages: with it no finding is reported for any
\* script, without it (also when no package is declared) every finding of
\* the checker is reported.
C17_SuppressedIffCoreutilsDeclared ==
    ( \/ mode = "runCheck" /\ checkGNUCompat
      \/ mode = "check-package" /\ runtimeDeps.AllDeps = packageList ) =>
        \A i \in Analysed :
            IF Declared(<<"c", "o", "r", "e", "u", "t", "i", "l", "s">>)
            THEN results[i].GNUIncompatible = <<>>
            ELSE results[i].GNUIncompatible \in EveryFinding(files[i])

\* Is the package or one of its variants (name-..., in any case) among the
\* runtime dependencies check-package found?
DeclaredVariant(pkg) ==
    \E i \in 1..Len(runtimeDeps.AllDeps) :
        \/ ToLower(runtimeDeps.AllDeps[i]) = pkg
        \/ HasPrefix(ToLower(runtimeDeps.AllDeps[i]), pkg \o <<"-">>)

\* C17 amended: in a package-based run with coreutils among the declared
\* packages no finding is reported for any script.  Without it, runCheck
\* reports every finding of its scanner when GNU checking is enabled (also
\* when no package is declared) and none when it is disabled; check-package
\* reports every finding of the checker exactly when the runtime
\* dependencies it found hold busybox or busybox-... and no coreutils or
\* coreutils-... (names compared in lower case), and none otherwise, so
\* none when no package is declared.
C17_SuppressionByMode ==
    /\ mode = "runCheck" =>
           \A i \in Analysed :
               IF checkGNUCompat /\ ~Declared(<<"c", "o", "r", "e", "u", "t", "i", "l", "s">>)
               THEN results[i].GNUIncompatible \in EveryFinding(files[i])
               ELSE results[i].GNUIncompatible = <<>>
    /\ mode = "check-package" =>
           \A i \in Analysed :
               IF DeclaredVariant(<<"b", "u", "s", "y", "b", "o", "x">>) /\ ~DeclaredVariant(<<"c", "o", "r", "e", "u", "t", "i", "l", "s">>)
               THEN results[i].GNUIncompatible \in EveryFinding(files[i])
               ELSE results[i].GNUIncompatible = <<>>
    /\ ( mode \in {"runCheck", "check-package"} /\ Declared(<<"c", "o", "r", "e", "u", "t", "i", "l", "s">>) ) =>
           \A i \in 1..Len(results) : results[i].GNUIncompatible = <<>>

\* C17 witness: check-package has returned for a package that declares
\* busybox alone, with findings reported for both scripts of the run.
C17_Witness ==
    /\ pc = "exit"
    /\ mode = "check-package"
    /\ packageList = << <<"b", "u", "s", "y", "b", "o", "x">> >>
    /\ runtimeDeps.HasBusybox
    /\ Len(results) = 2
    /\ \A i \in 1..2 : Len(results[i].GNUIncompatible) > 0

\* The scripts of the run whose processing fails.
Failing == { i \in 1..Len(files) : FailsAlone(files[i]) }

\* C21: for each of show, scan and check, when an error occurs while
\* processing one or more of the files, the command still processes all the
\* other files, writes the error messages with its results, and only then
\* returns an error (exit code 1), whatever the strict setting.
C21_ErrorsThenNonZeroExit ==
    ( /\ mode \in {"show", "scan", "check"}
      /\ pc = "exit"
      /\ Failing # {} ) =>
        /\ Len(results) = Len(files)
        /\ written = results
        /\ \A i \in Failing : written[i].Error = ErrorAlone(files[i])
        /\ status # "ok"

\* Has some script of the run an issue: a missing command, a finding or an
\* error?
SomeIssue == \E i \in 1..Len(results) : IsIssue(results[i])

C29_ErrorMeansNothingElse ==
    mode = "check" =>
        /\ \A i \in 1..Len(results) :
               /\ results[i].Error # <<>> =>
                      /\ results[i].Deps = NilSlice
                      /\ results[i].Missing = <<>>
                      /\ results[i].GNUIncompatible = <<>>
               /\ ( \/ results[i].Deps # NilSlice
                    \/ results[i].Missing # <<>>
                    \/ results[i].GNUIncompatible # <<>> ) =>
                      /\ files[i].readable
                      /\ files[i].parsed.err = ""
                      /\ results[i].Deps = SliceOf(DepsAlone(files[i]))
                      /\ results[i].Error = <<>>
        /\ (result # <<>> /\ result.Deps # NilSlice) => result.Error = <<>>

\* C29 witness: check has produced a result with an Error for a script that
\* does not parse and, in the same run and with a search path, a result
\* with Deps, Missing and GNUIncompatible filled.
C29_Witness ==
    /\ mode = "check"
    /\ pc = "exit"
    /\ files = <<mixed_sh, bad_sh>>
    /\ results[1].Deps # NilSlice
    /\ results[1].Missing # <<>>
    /\ results[1].GNUIncompatible # <<>>
    /\ results[2].Error # <<>>

\* ------------------------------------------------------------------------
\* Shebang recognition: extractShebang and isShellScript (shelldeps.go).
\* ------------------------------------------------------------------------

\* strings.Fields: the maximal runs of non-blank characters of s.
RECURSIVE Fields(_)
Fields(s) ==
    LET t == TrimLeftSpace(s)
        RECURSIVE wordLen(_)
        wordLen(i) == IF i > Len(t) \/ IsSpace(t[i]) THEN i - 1 ELSE wordLen(i + 1)
    IN  IF t = <<>> THEN <<>>
        ELSE LET n == wordLen(1)
             IN  <<SubSeq(t, 1, n)>> \o Fields(SubSeq(t, n + 1, Len(t)))

\* getShebangProgram: the interpreter of a shebang string, without an
\* /usr/bin/env wrapper and without arguments.
getShebangProgram(shebang) ==
    IF shebang = <<>> THEN <<>>
    ELSE LET parts == Fields(shebang)
         IN  IF HasPrefix(shebang, <<"/", "u", "s", "r", "/", "b", "i", "n", "/", "e", "n", "v", " ">>)
             THEN IF Len(parts) >= 2 THEN parts[2] ELSE <<>>
             ELSE IF Len(parts) > 0 THEN parts[1] ELSE <<>>

\* validShells: the keys of the map of recognised interpreters.
validShells ==
    { <<"/", "b", "i", "n", "/", "s", "h">>, <<"/", "b", "i", "n", "/", "d", "a", "s", "h">>, <<"/", "b", "i", "n", "/", "b", "a", "s", "h">>, <<"s", "h">>, <<"d", "a", "s", "h">>, <<"b", "a", "s", "h">> }

\* isShellScript: open the file, extractShebang, look the whole returned
\* string up in validShells.  An unreadable file gives (false, err).
isShellScript(f) ==
    IF ~f.readable THEN FALSE
    ELSE extractShebang(f.lines) \in validShells

\* The six shebangs the documentation lists, as what follows the "#!".
DirectForms == { <<"/", "b", "i", "n", "/", "s", "h">>, <<"/", "b", "i", "n", "/", "d", "a", "s", "h">>, <<"/", "b", "i", "n", "/", "b", "a", "s", "h">> }
EnvForms    == { <<"/", "u", "s", "r", "/", "b", "i", "n", "/", "e", "n", "v", " ", "s", "h">>, <<"/", "u", "s", "r", "/", "b", "i", "n", "/", "e", "n", "v", " ", "d", "a", "s", "h">>, <<"/", "u", "s", "r", "/", "b", "i", "n", "/", "e", "n", "v", " ", "b", "a", "s", "h">> }
ListedForms == DirectForms \cup EnvForms

\* Other things a first line may hold after "#!".
OtherForms ==
    { <<"/", "u", "s", "r", "/", "b", "i", "n", "/", "p", "y", "t", "h", "o", "n", "3">>, <<"/", "u", "s", "r", "/", "b", "i", "n", "/", "e", "n", "v", " ", "p", "y", "t", "h", "o", "n", "3">>, <<"/", "b", "i", "n", "/", "z", "s", "h">>, <<"/", "b", "i", "n", "/", "s", "h", " ", "-", "e">> }

\* First lines: a shebang with or without blanks after the "#!" and with
\* or without trailing blanks, and lines that are no shebang.
ShebangLines ==
    { <<"#", "!">> \o gap \o form \o tail :
        gap \in { <<>>, <<" ">> },
        form \in ListedForms \cup OtherForms,
        tail \in { <<>>, <<" ", " ">> } }
PlainLines == { <<"#", " ", "c", "o", "m", "m", "e", "n", "t">>, <<"e", "c", "h", "o", " ", "h", "e", "l", "l", "o">>, <<>>, <<"#", "!">> }

ShebangContents ==
    { <<>> } \cup
    { <<first>> \o rest :
        first \in ShebangLines \cup PlainLines,
        rest \in { <<>>, << <<"e", "c", "h", "o", " ", "h", "e", "l", "l", "o">> >> } }

ShebangFiles ==
    { [readable |-> r, lines |-> l] : r \in BOOLEAN, l \in ShebangContents }

\* extractShebang(r) on the open file.
CallExtractShebang ==
    /\ pc = "shebang"
    /\ content[1].readable
    /\ shell = <<>>
    /\ shell' = <<extractShebang(content[1].lines)>>
    /\ UNCHANGED <<content, isShell>>
    /\ UNCHANGED <<depsVars, flagVars, compatVars, lookupVars, batchVars, tableVars>>

\* isShellScript(path).
CallIsShellScript ==
    /\ pc = "shebang"
    /\ isShell = <<>>
    /\ isShell' = <<isShellScript(content[1])>>
    /\ UNCHANGED <<content, shell>>
    /\ UNCHANGED <<depsVars, flagVars, compatVars, lookupVars, batchVars, tableVars>>

InitShebang ==
    /\ TablesLoaded
    /\ parsed = [err |-> "", file |-> <<>>]
    /\ pc = "shebang"
    /\ idx = 1
    /\ funcs = {} /\ aliases = {} /\ wrapperFuncs = {} /\ deps = {}
    /\ slice = <<>>
    /\ outputs = <<>>
    /\ arg = <<>> /\ flag = <<>> /\ matched = "none"
    /\ searchPath = <<>>
    /\ fs = <<>>
    /\ incompatibilities = <<>>
    /\ providerCache = <<>>
    /\ filtered = <<>>
    /\ fidx = 1
    /\ info = <<>>
    /\ dirIdx = 1
    /\ lstats = <<>>
    /\ packageList = <<>>
    /\ required = <<>>
    /\ hasCoreutils = <<>>
    /\ missing = "none"
    /\ BatchRunIdle
    /\ content \in { <<f>> : f \in ShebangFiles }
    /\ shell = <<>>
    /\ isShell = <<>>

NextShebang == CallExtractShebang \/ CallIsShellScript

SpecShebang == InitShebang /\ [][NextShebang]_vars

\* The first line made of "#!", blanks, what follows, trailing blanks.
ShebangLine(gap, form, tail) == <<"#", "!">> \o gap \o form \o tail

\* The first line of the file is one of the given forms, with or without
\* a blank after the "#!".
FirstLineIn(forms) ==
    /\ content[1].lines # <<>>
    /\ \E form \in forms, gap \in { <<>>, <<" ">> }, tail \in { <<>>, <<" ", " ">> } :
            content[1].lines[1] = ShebangLine(gap, form, tail)

\* The interpreter a listed form names: the word after env, or the path.
Interpreter(form) ==
    IF form \in EnvForms THEN Fields(form)[2] ELSE form

\* C23: for the six listed shebangs, with or without a blank after "#!",
\* extractShebang yields the interpreter ("bash" for "#!/usr/bin/env bash",
\* "/bin/bash" for "#! /bin/bash", empty when line 1 is no shebang), and
\* isShellScript accepts exactly the files that start with one of the six.
C23_ShebangForms ==
    /\ shell # <<>> =>
        /\ \A form \in ListedForms :
                FirstLineIn({form}) => shell[1] = Interpreter(form)
        /\ (content[1].lines = <<>>
            \/ ~HasPrefix(TrimSpace(content[1].lines[1]), <<"#", "!">>))
                => shell[1] = <<>>
    /\ (isShell # <<>> /\ content[1].readable) =>
        (isShell[1] <=> FirstLineIn(ListedForms))

\* ------------------------------------------------------------------------
\* The tables under every analysis operation.
\* ------------------------------------------------------------------------

\* The runs of the commands, which call extractDeps, findMissingInPath,
\* CheckGNUCompatWithPath and DetectCommandProvider in sequence, and the
\* calls of HasGNUCoreutils and FindMissingCommands in either order.
InitAnalysis == InitBatch \/ InitPackages
NextAnalysis == NextBatch \/ NextPackages
SpecAnalysis == InitAnalysis /\ [][NextAnalysis]_vars

\* C24: no analysis operation writes the builtin table, the GNU-flag rule
\* table or PackageProvides: in every state reached by any sequence of the
\* operations the three tables equal their initial values.
C24_TablesNeverWritten ==
    /\ shellBuiltins = shellBuiltinsLiteral
    /\ gnuOnlyFlags = gnuOnlyFlagsLiteral
    /\ PackageProvides = PackageProvidesLiteral

\* A check run that has extracted dependencies, looked them up in the
\* search path, reported findings and filtered them by provider.
C24_Witness ==
    /\ pc = "exit"
    /\ mode = "check"
    /\ \E i \in 1..Len(results) :
            /\ results[i].Deps # <<>>
            /\ results[i].Missing # <<>>
            /\ results[i].GNUIncompatible # <<>>

\* ------------------------------------------------------------------------
\* CheckGNUCompatibilityAST called twice on one parsed script.
\* ------------------------------------------------------------------------

\* The first call has returned; its findings are kept and the function is
\* called again on the same file.
CheckAgain ==
    /\ pc = "checked"
    /\ Len(outputs) < NumRuns - 1
    /\ outputs' = Append(outputs, incompatibilities)
    /\ incompatibilities' = <<>>
    /\ idx' = 1
    /\ pc' = "check"
    /\ UNCHANGED <<parsed, funcs, aliases, wrapperFuncs, deps, slice,
                   flagVars, searchPath, fs, providerCache, filtered, fidx,
                   info, dirIdx, lstats, lookupVars, batchVars, shebangVars, tableVars>>

NextRerun ==
    \/ CheckNode
    \/ CheckReturn
    \/ CheckAgain

SpecRerun == InitCompat /\ [][NextRerun]_vars

\* C25: two runs of the checker on the same script return the same
\* findings in the same order, also when one argument matches several
\* flags of its command (readlink -em x).
C25_SameFindingsSameOrder ==
    (pc = "checked" /\ outputs # <<>>) => incompatibilities = outputs[1]

\* ------------------------------------------------------------------------
\* The Line of a finding: call.Pos().Line().
\* ------------------------------------------------------------------------

\* chmod --reference=foo bar
call_chmod_reference_foo == Call(<<W(<<"c", "h", "m", "o", "d">>), W(<<"-", "-", "r", "e", "f", "e", "r", "e", "n", "c", "e", "=", "f", "o", "o">>), W(<<"b", "a", "r">>)>>)

\* A simple command as it stands in the text: the lines (blank or comment)
\* between the end of the statement before it and its first word, and for
\* every further word whether a backslash-newline precedes it.
TextStmt(call, before, breaks) == [call |-> call, before |-> before, breaks |-> breaks]

\* The most blank lines before a statement and the longest text, in
\* statements.
MaxBlankLines == 1
MaxLineStmts  == 2

LinePool == { call_chmod_reference_foo, call_realpath_two, call_ls }

TextStmts ==
    { TextStmt(c, b, br) :
        c \in LinePool, b \in 0..MaxBlankLines,
        br \in UNION { [1..n -> BOOLEAN] : n \in 0..3 } }

WellFormedText(s) == Len(s.breaks) = Len(s.call.Args) - 1

Texts ==
    UNION { [1..n -> { s \in TextStmts : WellFormedText(s) }] : n \in 1..MaxLineStmts }

\* The lines of the words of a statement whose first word is on line first.
RECURSIVE WordLines(_, _)
WordLines(first, breaks) ==
    IF breaks = <<>> THEN <<first>>
    ELSE <<first>> \o WordLines(IF Head(breaks) THEN first + 1 ELSE first, Tail(breaks))

\* The parser's positions: for every statement the line of each word, the
\* text being read from line `line` on.
RECURSIVE Positions(_, _)
Positions(text, line) ==
    IF text = <<>> THEN <<>>
    ELSE LET words == WordLines(line + Head(text).before, Head(text).breaks)
         IN  <<words>> \o Positions(Tail(text), words[Len(words)] + 1)

\* parser.Parse on a text with or without a shebang line before it.
ParseText(shebang, text) ==
    [err   |-> "",
     file  |-> [i \in 1..Len(text) |-> text[i].call],
     text  |-> text,
     start |-> IF shebang THEN 2 ELSE 1,
     lines |-> Positions(text, IF shebang THEN 2 ELSE 1)]

\* The line of the first argument after the command name.
FirstArgLine(pos) ==
    IF Len(parsed.lines[pos]) >= 2 THEN parsed.lines[pos][2] ELSE parsed.lines[pos][1]

\* call.Pos().Line() of the pos-th node: a call without assignments
\* begins at its first word.
CallLine(pos) == parsed.lines[pos][1]

\* The finding as CheckGNUCompatibilityAST appends it, with its Line.
Located(found) ==
    [Command     |-> found.Command,
     Flag        |-> found.Flag,
     Line        |-> CallLine(found.Pos),
     Pos         |-> found.Pos,
     Description |-> found.Description,
     Fix         |-> found.Fix]

\* The walk hands one node of a positioned file to the callback.
CheckNodeAt ==
    /\ pc = "check"
    /\ idx <= Len(Nodes)
    /\ \E found \in nodeFindings(Nodes[idx], idx) :
           incompatibilities' =
               incompatibilities \o [i \in 1..Len(found) |-> Located(found[i])]
    /\ idx' = idx + 1
    /\ UNCHANGED <<parsed, pc, funcs, aliases, wrapperFuncs, deps, slice, outputs,
                   flagVars, searchPath, fs, providerCache, filtered, fidx,
                   info, dirIdx, lstats, lookupVars, batchVars, shebangVars, tableVars>>

InitLine ==
    /\ TablesLoaded
    /\ parsed \in { ParseText(sb, t) : sb \in BOOLEAN, t \in Texts }
    /\ pc = "check"
    /\ idx = 1
    /\ funcs = {} /\ aliases = {} /\ wrapperFuncs = {} /\ deps = {}
    /\ slice = <<>>
    /\ outputs = <<>>
    /\ arg = <<>> /\ flag = <<>> /\ matched = "none"
    /\ CompatIdle

NextLine ==
    \/ CheckNodeAt
    \/ CheckReturn

SpecLine == InitLine /\ [][NextLine]_vars

\* The number of backslash-newlines inside a statement.
RECURSIVE Continuations(_)
Continuations(breaks) ==
    IF breaks = <<>> THEN 0
    ELSE (IF Head(breaks) THEN 1 ELSE 0) + Continuations(Tail(breaks))

\* The 1-based line of the text on which statement i begins.
RECURSIVE BeginLine(_)
BeginLine(i) ==
    (IF i = 1 THEN parsed.start
     ELSE BeginLine(i - 1) + Continuations(parsed.text[i - 1].breaks) + 1)
    + parsed.text[i].before

\* chmod on line 2, its flag on line 3, its operand on line 4.
ChmodContinued ==
    /\ parsed.start = 2
    /\ parsed.text = <<TextStmt(call_chmod_reference_foo, 0, <<TRUE, TRUE>>)>>

\* C26: every finding's Line is the 1-based line on which its call
\* expression begins, also when the flag stands on a later continuation
\* line: chmod \ --reference=foo \ bar beginning on line 2 is reported once,
\* at line 2.
C26_LineOfCallStart ==
    /\ \A i \in 1..Len(incompatibilities) :
            incompatibilities[i].Line = BeginLine(incompatibilities[i].Pos)
    /\ (pc = "checked" /\ ChmodContinued) =>
            /\ Len(incompatibilities) = 1
            /\ incompatibilities[1].Line = 2
            /\ incompatibilities[1].Command = <<"c", "h", "m", "o", "d">>
            /\ incompatibilities[1].Flag = <<"-", "-", "r", "e", "f", "e", "r", "e", "n", "c", "e">>

\* A finding of a call whose flag stands on a later line than its command,
\* in a text where the call does not begin on line 1.
C26_Witness ==
    /\ pc = "checked"
    /\ \E i \in 1..Len(incompatibilities) :
            /\ FirstArgLine(incompatibilities[i].Pos) > incompatibilities[i].Line
            /\ incompatibilities[i].Line > 1

\* ------------------------------------------------------------------------
\* Aliases defined by one alias call with several operands.
\* ------------------------------------------------------------------------

\* The NAME=VALUE arguments of the script's alias calls, as strings.
AliasOperands ==
    UNION { { wordToString(c.Args[k]) : k \in 2..Len(c.Args) } :
              c \in { n \in Calls : n.Args[1] = W(str_alias) } }

\* The NAME of every NAME=VALUE argument of every alias call.
AllAliasNames ==
    { SubSeq(s, 1, Index(s, str_eq)) : s \in { t \in AliasOperands : Index(t, str_eq) > 0 } }

\* C27: after the collection pass the alias set contains the NAME of every
\* NAME=VALUE argument of every alias call, including every argument of
\* alias a=x b=y.
C27_EveryAliasOperand ==
    (pc = "extract" /\ parsed.err = "") => AllAliasNames \subseteq aliases

\* ------------------------------------------------------------------------
\* Provider resolution and the lookup of missing commands on one search
\* path and one tree.
\* ------------------------------------------------------------------------

\* The scripts: realpath called by its name, by an absolute path, and both.
ResolveScripts ==
    { <<call_realpath_nosym>>, <<call_abs_realpath>>,
      <<call_abs_realpath, call_realpath_nosym>>,
      <<call_realpath_nosym, call_abs_realpath>>,
      <<call_abs_realpath, call_install_Dm755>> }

\* The commands of the findings, in their order.
FindingCommands == [i \in 1..Len(incompatibilities) |-> incompatibilities[i].Command]

\* findMissingInPath on the commands of the findings, with the search path
\* and the tree CheckGNUCompatWithPath has just read.
MissingOfFindings ==
    /\ pc = "returned"
    /\ missing = "none"
    /\ required' = FindingCommands
    /\ missing' = findMissingInPath(FindingCommands, searchPath)
    /\ pc' = "compared"
    /\ UNCHANGED <<parsed, idx, funcs, aliases, wrapperFuncs, deps, slice, outputs,
                   flagVars, compatVars, packageList, hasCoreutils, batchVars,
                   shebangVars, tableVars>>

InitResolve ==
    /\ TablesLoaded
    /\ parsed \in { [err |-> "", file |-> f] : f \in ResolveScripts }
    /\ pc = "check"
    /\ idx = 1
    /\ funcs = {} /\ aliases = {} /\ wrapperFuncs = {} /\ deps = {}
    /\ slice = <<>>
    /\ outputs = <<>>
    /\ arg = <<>> /\ flag = <<>> /\ matched = "none"
    /\ searchPath \in SearchPaths
    /\ fs \in FileSystems
    /\ incompatibilities = <<>>
    /\ providerCache = <<>>
    /\ filtered = <<>>
    /\ fidx = 1
    /\ info = <<>>
    /\ dirIdx = 1
    /\ lstats = <<>>
    /\ packageList = <<>>
    /\ required = <<>>
    /\ hasCoreutils = <<>>
    /\ missing = "none"
    /\ BatchIdle

NextResolve ==
    \/ CheckNode
    \/ CheckReturn
    \/ PathEmpty
    \/ FilterStart
    \/ FilterCached
    \/ FilterLookup
    \/ ProbeDir
    \/ ProbeEnd
    \/ FilterStore
    \/ FilterReturn
    \/ MissingOfFindings

SpecResolve == InitResolve /\ [][NextResolve]_vars

\* C28: on one search path and one tree, a bare command name that
\* DetectCommandProvider classifies as busybox or coreutils is not reported
\* missing by findMissingInPath, dangling symlinks included.
C28_ProvidedIsNotMissing ==
    pc = "compared" =>
        \A cmd \in DOMAIN providerCache :
            providerCache[cmd].Provider \in {"busybox", "coreutils"}
                => cmd \notin Range(missing)

\* The findings that come from a call naming its command by an absolute
\* path, and the path each of them names.
AbsoluteFindings ==
    { i \in 1..Len(incompatibilities) :
        StartsWithSlash(Nodes[incompatibilities[i].Pos].Args[1]) }
CallPath(i) == wordToString(Nodes[incompatibilities[i].Pos].Args[1])

\* The directories of the search path, cleaned as filepath.Join cleans.
SearchDirs == { Join(searchPath[k], <<>>) : k \in 1..Len(searchPath) }

\* The directory part of a path.
DirOf(path) == SubSeq(path, 1, Len(path) - Len(Base(path)) - 1)

====
